---- MODULE Spec2Model ----
(***************************************************************************)
(* Model of the relational projection and navigation engine of rust-gtfs:  *)
(*  - the projections RoutesCommandInterpreter::route                      *)
(*    (src/src/commands/routes.rs) and StopsCommandInterpreter::stop /     *)
(*    clone_descendants / put_descendants (src/src/commands/stops.rs),     *)
(*    applied to schedules as the loader (src/src/gtfs/*.rs) builds them   *)
(*    (specification Spec);                                                *)
(*  - the command dispatcher, the interpret functions of                   *)
(*    src/src/commands/{gtfs,routes,stops,trips}.rs (DispatchSpec);        *)
(*  - the same dispatcher on feeds whose ids are action words or hold a    *)
(*    '.' (ReservedSpec);                                                  *)
(*  - the loading of a route record, Route::try_from of                    *)
(*    src/src/gtfs/routes.rs (RouteLoadSpec);                              *)
(*  - the loading of a stop record and the accessors of the Stop,          *)
(*    Stop::try_from of src/src/gtfs/stops.rs (StopLoadSpec);              *)
(*  - parse_time of src/src/gtfs/stop_times.rs (ParseTimeSpec);            *)
(*  - ZipLoader::load of src/src/gtfs/loaders/zip_loader.rs (ZipLoadSpec). *)
(*                                                                         *)
(* Option<T> is a sequence: None is << >>, Some(x) is << x >>.             *)
(* A HashMap<String, V> is a function whose DOMAIN is its key set.         *)
(* A Result is a record [status, val, err]; err is the chain of error      *)
(* values, outermost first.                                                *)
(***************************************************************************)
EXTENDS Integers, Sequences, FiniteSets, TLC

VARIABLES root, node, depth, call, result

vars == <<root, node, depth, call, result>>

---------------------------------------------------------------------------
(* Bounds of the model *)

\* longest chain of successful projections followed from the root node
MaxNav == 2
\* number of records of stop_times.txt
MaxStopTimes == 2
\* number of nested put_descendants frames the thread's stack holds
StackLimit == 5

\* the ids a feed may use
StopIds == {"A", "A1", "B"}
RouteIds == {"R1", "R2"}
TripIds == {"T1", "T2"}

---------------------------------------------------------------------------
(* Option, Result and HashMap helpers *)

None == << >>
Some(x) == << x >>

Ok(v) == [status |-> "ok", val |-> Some(v), err |-> << >>]
Err(chain) == [status |-> "err", val |-> None, err |-> chain]
\* the recursion ran out of stack: the process is aborted, nothing is returned
StackOverflow == [status |-> "overflow", val |-> None, err |-> << >>]
NoResult == [status |-> "none", val |-> None, err |-> << >>]

ErrorValue(kind, arg) == [kind |-> kind, arg |-> arg]

EmptyMap == [k \in {} |-> None]

\* a lookup that also finds the key that continues k with '.' and one more
\* segment
get_by_stem(m, k) ==
    IF k \in DOMAIN m THEN << m[k] >>
    ELSE IF \E t \in {"B", "x"} : (k \o "." \o t) \in DOMAIN m
    THEN << m[CHOOSE key \in DOMAIN m : \E t \in {"B", "x"} : key = k \o "." \o t] >>
    ELSE << >>

\* HashMap::get
get(m, k) == IF k \in DOMAIN m THEN Some(m[k]) ELSE None

\* HashMap::insert
insert(m, k, v) == [x \in DOMAIN m \cup {k} |-> IF x = k THEN v ELSE m[x]]

Range(s) == {s[i] : i \in DOMAIN s}

\* the orders in which a HashMap with key set S may be iterated
RECURSIVE Orders(_)
Orders(S) ==
    IF S = {} THEN {<< >>}
    ELSE UNION {{<<x>> \o o : o \in Orders(S \ {x})} : x \in S}

---------------------------------------------------------------------------
(* Entity model *)

\* Stop with its LocationTypeDetails variant; the per-variant details are the
\* fields stop_name and parent_station (a Station has no parent field).
StopRecord(id, location_type, stop_name, parent) ==
    [stop_id |-> id, location_type |-> location_type,
     stop_name |-> stop_name, parent_station |-> parent]

\* get_stop_name that reports no name for any stop
get_stop_name_absent(s) == None

\* Stop::get_stop_name
get_stop_name(s) ==
    CASE s.location_type = "Stop" -> Some(s.stop_name[1])
      [] s.location_type = "Station" -> Some(s.stop_name[1])
      [] s.location_type = "EntranceExit" -> Some(s.stop_name[1])
      [] s.location_type = "GenericNode" -> s.stop_name
      [] s.location_type = "BoardingArea" -> s.stop_name

\* Stop::parent_station
parent_station(s) ==
    CASE s.location_type = "Stop" -> s.parent_station
      [] s.location_type = "Station" -> None
      [] s.location_type = "EntranceExit" -> Some(s.parent_station[1])
      [] s.location_type = "GenericNode" -> Some(s.parent_station[1])
      [] s.location_type = "BoardingArea" -> Some(s.parent_station[1])

\* Route with its RouteName variant
RouteRecord(id, variant, long, short) ==
    [route_id |-> id, name |-> [variant |-> variant, long |-> long, short |-> short]]

\* Route::long_or_short_name
long_or_short_name(r) ==
    CASE r.name.variant = "Long" -> r.name.long
      [] r.name.variant = "Short" -> r.name.short
      [] r.name.variant = "LongAndShort" -> r.name.long

\* Route::name
name(r) == long_or_short_name(r)

TripRecord(id, route_id) == [trip_id |-> id, route_id |-> route_id]

StopTimeRecord(trip_id, stop_id, stop_sequence) ==
    [trip_id |-> trip_id, stop_id |-> stop_id, stop_sequence |-> stop_sequence]

GtfsSchedule(stops, routes, trips, stop_times) ==
    [stops |-> stops, routes |-> routes, trips |-> trips, stop_times |-> stop_times]

GtfsNode(gtfs, parent, node_id, node_name) ==
    [gtfs |-> gtfs, parent |-> parent, node_id |-> node_id, node_name |-> node_name]

\* StopTimes::iter: values().flatten(), the keys visited in the order ord
RECURSIVE iter(_, _)
iter(stop_times, ord) ==
    IF ord = << >> THEN << >>
    ELSE stop_times[Head(ord)] \o iter(stop_times, Tail(ord))

\* every stop-time entry of a schedule, whatever key it is stored under
Entries(S) == UNION {Range(S.stop_times[k]) : k \in DOMAIN S.stop_times}

---------------------------------------------------------------------------
(* Loader: the tables a feed yields *)

\* StopTimes::try_from: each record is appended to its trip's list, in file order
LoadStopTimes(records) ==
    [t \in {records[i].trip_id : i \in DOMAIN records} |->
        SelectSeq(records, LAMBDA r : r.trip_id = t)]

\* a table keyed by id from a choice of at most one record per id
TableOf(choice) ==
    [id \in {i \in DOMAIN choice : choice[i] # None} |-> choice[id][1]]

StationA == StopRecord("A", "Station", Some("Downtown"), None)
PlatformA1 == StopRecord("A1", "Stop", Some("Platform 1"), Some("A"))

\* the stop records a feed may hold for each stop id
StopChoices ==
    [id \in StopIds |->
        CASE id = "A" ->
               {Some(StationA)}
               \cup {Some(StopRecord("A", "Stop", Some("Downtown"), p)) :
                        p \in {None} \cup {Some(q) : q \in StopIds}}
          [] id = "A1" ->
               {None, Some(StopRecord("A1", "EntranceExit", Some("Gate"), Some("A")))}
               \cup {Some(StopRecord("A1", "Stop", Some("Platform 1"), p)) :
                        p \in {None} \cup {Some(q) : q \in StopIds}}
          [] id = "B" ->
               {None, Some(StopRecord("B", "Stop", Some("Harbour"), None)),
                Some(StopRecord("B", "BoardingArea", Some("Bay"), Some("A1")))}
               \cup {Some(StopRecord("B", "GenericNode", None, Some(q))) : q \in StopIds}]

StopTables == {TableOf(c) : c \in {f \in [StopIds -> UNION {StopChoices[i] : i \in StopIds}] :
                                      \A i \in StopIds : f[i] \in StopChoices[i]}}

BaseStops == TableOf([id \in StopIds |->
                CASE id = "A" -> Some(StationA)
                  [] id = "A1" -> Some(PlatformA1)
                  [] id = "B" -> None])

RouteR1 == RouteRecord("R1", "LongAndShort", "Red Line", "RL")
RouteR2 == RouteRecord("R2", "Short", "", "2")

\* routes.txt holds R1 and possibly R2
RouteTables == {("R1" :> RouteR1), ("R1" :> RouteR1) @@ ("R2" :> RouteR2)}

\* trips.txt holds T1 on R1 and possibly T2 on either route
TripTables ==
    {("T1" :> TripRecord("T1", "R1"))}
    \cup {("T1" :> TripRecord("T1", "R1")) @@ ("T2" :> TripRecord("T2", r)) : r \in RouteIds}

\* stop_times.txt: up to MaxStopTimes records, stop_sequence rising in file order
StopTimeFiles ==
    UNION {{[i \in 1..n |-> StopTimeRecord(f[i][1], f[i][2], i)] :
               f \in [1..n -> TripIds \X ({None} \cup {Some(s) : s \in StopIds})]} :
           n \in 0..MaxStopTimes}

BaseRoutes == ("R1" :> RouteR1) @@ ("R2" :> RouteR2)
BaseTrips == ("T1" :> TripRecord("T1", "R1")) @@ ("T2" :> TripRecord("T2", "R2"))
BaseStopTimeFile ==
    <<StopTimeRecord("T1", Some("A1"), 1), StopTimeRecord("T2", Some("B"), 2)>>

\* the schedules the loader can hand to the core: every stop hierarchy under
\* one timetable, and every timetable under one stop hierarchy
Feeds ==
    {GtfsSchedule(st, BaseRoutes, BaseTrips, LoadStopTimes(BaseStopTimeFile)) :
        st \in StopTables}
    \cup {GtfsSchedule(BaseStops, r, t, LoadStopTimes(f)) :
        r \in RouteTables, t \in TripTables, f \in StopTimeFiles}

\* the root node of the navigation tree
RootNode(gtfs) == GtfsNode(gtfs, None, "", None)

---------------------------------------------------------------------------
(* Projection by route: RoutesCommandInterpreter::route *)

\* the fold of (stop_id, stop_time) pairs into a HashMap of Vecs:
\* entry(stop_id).or_insert(Vec::new()).push(stop_time), each Vec keeping the
\* order in which the stop-times were visited
group_by_stop_id(stop_times) ==
    [k \in {stop_times[i].stop_id[1] : i \in DOMAIN stop_times} |->
        SelectSeq(stop_times, LAMBDA st : st.stop_id[1] = k)]

\* trips: the trips whose route_id is the selector, collected by trip_id
route_trips(S, route_id) ==
    [t \in {S.trips[k].trip_id : k \in {x \in DOMAIN S.trips : S.trips[x].route_id = route_id}}
        |-> S.trips[t]]

\* stop_times_by_stop: the stop-times that carry a stop_id and whose trip is
\* among trips, grouped by stop_id
route_stop_times_by_stop(S, trips, ord) ==
    group_by_stop_id(
        SelectSeq(iter(S.stop_times, ord),
                  LAMBDA st : st.stop_id # None /\ get(trips, st.trip_id) # None))

\* route_stops without its filter: every stop of the source is kept
route_stops_unfiltered(S, stop_times_by_stop) ==
    [s \in {S.stops[k].stop_id : k \in DOMAIN S.stops} |-> S.stops[s]]

\* stops: the stops whose id is a key of stop_times_by_stop, collected by stop_id
route_stops(S, stop_times_by_stop) ==
    [s \in {S.stops[k].stop_id :
              k \in {x \in DOMAIN S.stops : get(stop_times_by_stop, S.stops[x].stop_id) # None}}
        |-> S.stops[s]]

\* stop_times: stop_times_by_stop with its entries cloned, under the same keys
route_stop_times(stop_times_by_stop) ==
    [stop_id \in DOMAIN stop_times_by_stop |-> stop_times_by_stop[stop_id]]

\* route without the ok_or(NoSuchRoute): the routes map is filtered by the
\* selector instead, so an absent id yields a schedule with no route
route_unchecked(self, route_id, ord) ==
    LET S == self.gtfs
        routes == [r \in DOMAIN S.routes \cap {route_id} |-> S.routes[r]]
        trips == route_trips(S, route_id)
        stop_times_by_stop == route_stop_times_by_stop(S, trips, ord)
    IN  Ok(GtfsNode(GtfsSchedule(route_stops(S, stop_times_by_stop), routes, trips,
                                 route_stop_times(stop_times_by_stop)),
                    Some(self), route_id, None))

\* RoutesCommandInterpreter::route, self.0 being the node self; ord is the
\* order in which self's stop_times map is iterated
route(self, route_id, ord) ==
    LET S == self.gtfs
        found == get(S.routes, route_id)
    IN  IF found = None
        THEN Err(<<ErrorValue("NoSuchRoute", route_id)>>)
        ELSE LET raw_route == found[1]
                 routes == (route_id :> raw_route)
                 trips == route_trips(S, route_id)
                 stop_times_by_stop == route_stop_times_by_stop(S, trips, ord)
                 stops == route_stops(S, stop_times_by_stop)
                 stop_times == route_stop_times(stop_times_by_stop)
             IN  Ok(GtfsNode(GtfsSchedule(stops, routes, trips, stop_times),
                             Some(self), route_id, Some(name(raw_route))))

---------------------------------------------------------------------------
(* Projection by stop: StopsCommandInterpreter::stop *)

\* an index that lists under each stop the id it names as parent
stops_and_children_reversed(S) ==
    LET parents == {parent_station(S.stops[k])[1] :
                       k \in {x \in DOMAIN S.stops : parent_station(S.stops[x]) # None}}
    IN  [id \in DOMAIN S.stops \cup parents |->
            [stop |-> get(S.stops, id),
             children |-> IF id \in DOMAIN S.stops /\ parent_station(S.stops[id]) # None
                          THEN {parent_station(S.stops[id])[1]} ELSE {}]]

\* stops_and_children: for every stop id and every id named as a parent, the
\* stop (if the table has it) and the ids of the stops naming it as parent.
\* The children Vec is kept as a set: the order in which the stop table is
\* iterated only decides the order of the traversal below.
stops_and_children(S) ==
    LET parents == {parent_station(S.stops[k])[1] :
                       k \in {x \in DOMAIN S.stops : parent_station(S.stops[x]) # None}}
    IN  [id \in DOMAIN S.stops \cup parents |->
            [stop |-> get(S.stops, id),
             children |-> {k \in DOMAIN S.stops : parent_station(S.stops[k]) = Some(id)}]]

\* put_descendants without the recursive call: the stop and its children only
put_descendants_shallow(descendants, stop, index, frames) ==
    LET inserted == insert(descendants, stop.stop_id, stop)
        entry == get(index, stop.stop_id)
        children == IF entry = None THEN {} ELSE entry[1].children
    IN  Ok([id \in DOMAIN inserted \cup children |->
               IF id \in children THEN index[id].stop[1] ELSE inserted[id]])

\* put_descendants; frames is the number of further nested calls the stack holds
RECURSIVE put_descendants(_, _, _, _)
RECURSIVE put_children(_, _, _, _)
\* put_descendants without the insert of a stop that has children: only the
\* leaves of the subtree are kept
put_descendants_unrooted(descendants, stop, index, frames) ==
    LET entry == get(index, stop.stop_id)
    IN  IF frames = 0 THEN StackOverflow
        ELSE IF entry = None \/ entry[1].children = {}
        THEN Ok(insert(descendants, stop.stop_id, stop))
        ELSE put_children(descendants, entry[1].children, index, frames)

put_descendants(descendants, stop, index, frames) ==
    IF frames = 0 THEN StackOverflow
    ELSE LET inserted == insert(descendants, stop.stop_id, stop)
             entry == get(index, stop.stop_id)
         IN  IF entry = None THEN Ok(inserted)
             ELSE put_children(inserted, entry[1].children, index, frames)

\* the for loop of put_descendants over the children still to visit
put_children(descendants, children, index, frames) ==
    IF children = {} THEN Ok(descendants)
    ELSE LET child_id == CHOOSE c \in children : TRUE
             entry == get(index, child_id)
             child == IF entry = None THEN None ELSE entry[1].stop
         IN  IF child = None
             THEN Err(<<ErrorValue("NoSuchStop", child_id)>>)
             ELSE LET r == put_descendants(descendants, child[1], index, frames - 1)
                  IN  CASE r.status = "overflow" -> r
                        [] r.status = "err" ->
                             Err(<<ErrorValue("ErrorGettingDescendants", child_id)>> \o r.err)
                        [] r.status = "ok" ->
                             put_children(r.val[1], children \ {child_id}, index, frames)

\* StopsCommandInterpreter::clone_descendants
clone_descendants(S, stop_id) ==
    LET index == stops_and_children(S)
        entry == get(index, stop_id)
        start == IF entry = None THEN None ELSE entry[1].stop
    IN  IF start = None
        THEN Err(<<ErrorValue("NoSuchStop", stop_id)>>)
        ELSE LET r == put_descendants(EmptyMap, start[1], index, StackLimit)
             IN  IF r.status = "err"
                 THEN Err(<<ErrorValue("ErrorGettingDescendants", stop_id)>> \o r.err)
                 ELSE r

\* the fold of (trip_id, stop_time) pairs into a HashMap of Vecs:
\* entry(trip_id).or_insert(Vec::new()).push(stop_time.clone())
group_by_trip_id(stop_times) ==
    [k \in {stop_times[i].trip_id : i \in DOMAIN stop_times} |->
        SelectSeq(stop_times, LAMBDA st : st.trip_id = k)]

\* stop_times: the stop-times whose stop_id is among stops, grouped by trip_id
stop_stop_times(S, stops, ord) ==
    group_by_trip_id(
        SelectSeq(iter(S.stop_times, ord),
                  LAMBDA st : st.stop_id # None /\ get(stops, st.stop_id[1]) # None))

\* stop_trips_by_route without its filter: every trip of the source is kept
stop_trips_by_route_unfiltered(S, stop_times) ==
    LET picked == {S.trips[k] : k \in DOMAIN S.trips}
    IN  [r \in {t.route_id : t \in picked} |-> {t \in picked : t.route_id = r}]

\* trips_by_route: the trips whose trip_id is a key of stop_times, grouped by
\* route_id (each group a set: it is flattened into a map below)
stop_trips_by_route(S, stop_times) ==
    LET picked == {S.trips[k] : k \in {x \in DOMAIN S.trips :
                                          get(stop_times, S.trips[x].trip_id) # None}}
    IN  [r \in {t.route_id : t \in picked} |-> {t \in picked : t.route_id = r}]

\* routes taken from the root schedule instead of the source
stop_routes_of_root(S, trips_by_route) == root.gtfs.routes

\* routes: the routes whose id is a key of trips_by_route, collected by route_id
stop_routes(S, trips_by_route) ==
    [r \in {S.routes[k].route_id :
              k \in {x \in DOMAIN S.routes : get(trips_by_route, S.routes[x].route_id) # None}}
        |-> S.routes[r]]

\* trips: trips_by_route flattened and collected by trip_id
stop_trips(trips_by_route) ==
    LET all == UNION {trips_by_route[r] : r \in DOMAIN trips_by_route}
    IN  [id \in {t.trip_id : t \in all} |-> CHOOSE t \in all : t.trip_id = id]

\* StopsCommandInterpreter::stop, self.0 being the schedule S; ord is the
\* order in which S's stop_times map is iterated
stop(S, stop_id, ord) ==
    LET found == get(S.stops, stop_id)
    IN  IF found = None
        THEN Err(<<ErrorValue("NoSuchStop", stop_id)>>)
        ELSE LET raw_stop == found[1]
                 cloned == clone_descendants(S, stop_id)
             IN  IF cloned.status # "ok" THEN cloned
                 ELSE LET stops == cloned.val[1]
                          stop_times == stop_stop_times(S, stops, ord)
                          trips_by_route == stop_trips_by_route(S, stop_times)
                          routes == stop_routes(S, trips_by_route)
                          trips == stop_trips(trips_by_route)
                      IN  Ok(GtfsNode(GtfsSchedule(stops, routes, trips, stop_times),
                                      None, stop_id, get_stop_name(raw_stop)))

---------------------------------------------------------------------------
(* The navigation: projections applied one after another from the root *)

NoCall == [op |-> "none", id |-> "", self |-> None]

Init ==
    /\ root \in {RootNode(f) : f \in Feeds}
    /\ node = root
    /\ depth = 0
    /\ call = NoCall
    /\ result = NoResult

\* a call has returned r: a successful projection becomes the current node
Return(op, id, r) ==
    /\ call' = [op |-> op, id |-> id, self |-> Some(node)]
    /\ result' = r
    /\ node' = IF r.status = "ok" THEN r.val[1] ELSE node
    /\ depth' = IF r.status = "ok" THEN depth + 1 ELSE depth
    /\ UNCHANGED root

\* RoutesCommandInterpreter(&node).route(route_id)
CallRoute(route_id) ==
    /\ result.status # "overflow"
    /\ depth < MaxNav
    /\ \E ord \in Orders(DOMAIN node.gtfs.stop_times) :
          Return("route", route_id, route(node, route_id, ord))

\* StopsCommandInterpreter(&node.gtfs).stop(stop_id)
CallStop(stop_id) ==
    /\ result.status # "overflow"
    /\ depth < MaxNav
    /\ \E ord \in Orders(DOMAIN node.gtfs.stop_times) :
          Return("stop", stop_id, stop(node.gtfs, stop_id, ord))

Next ==
    \/ \E route_id \in RouteIds : CallRoute(route_id)
    \/ \E stop_id \in StopIds : CallStop(stop_id)

Spec == Init /\ [][Next]_vars

---------------------------------------------------------------------------
(* Command dispatcher: the interpret functions of GtfsNode,                *)
(* RoutesCommandInterpreter, StopsCommandInterpreter and                   *)
(* TripsCommandInterpreter.                                                *)
(*                                                                         *)
(* A command string is the non-empty sequence of its '.'-free segments:    *)
(* "stops.A.list" is <<"stops", "A", "list">>, "" is <<"">> and "stops."   *)
(* is <<"stops", "">>.  The rest left by the split at the first '.' is the *)
(* sequence of the segments after the first: << >> is the empty rest, any  *)
(* other value is the rest that begins with the separator.                 *)

\* bounds of the commands issued
\* number of (collection, id) pairs a command starts with
MaxPath == 2
\* number of segments that follow those pairs
MaxTail == 2

\* the unwinding of a panic: nothing is returned
Panic == [status |-> "panic", val |-> None, err |-> << >>]

\* the command string: the segments joined by the separator
RECURSIVE Text(_)
Text(command) ==
    IF Len(command) = 1 THEN command[1]
    ELSE command[1] \o "." \o Text(Tail(command))

\* the split made at the last '.' of the command instead of the first
split_at_last(command) ==
    [first |-> command[Len(command)], rest |-> SubSeq(command, 1, Len(command) - 1)]

\* command.find(".").and_then(|i| command.split_at_checked(i)).unwrap_or((command, ""))
split(command) == [first |-> Head(command), rest |-> Tail(command)]

\* try_tail: the rest without its first character, None when that is empty
try_tail(rest) ==
    IF rest = << >> \/ rest = <<"">> THEN None ELSE Some(rest)

\* rest.chars().skip(1) left out: the rest is handed over with its separator
keep_first(rest) == <<"">> \o rest

\* rest.chars().skip(1).collect::<String>()
skip_first(rest) == IF rest = << >> THEN <<"">> ELSE rest

\* &rest[1..]: the slice start 1 lies beyond the end of an empty rest
slice_from_1(rest) == IF rest = << >> THEN None ELSE Some(rest)

\* Display of StopCommandError, on an error chain
RECURSIVE StopCommandError_to_string(_)
StopCommandError_to_string(err) ==
    LET e == Head(err)
    IN  CASE e.kind = "NoSuchStop" -> "No such stop: " \o e.arg
          [] e.kind = "ErrorGettingDescendants" ->
                 "Error getting descendants for stop " \o e.arg \o ": "
                     \o StopCommandError_to_string(Tail(err))

\* Display of RoutesCommandError, for the one error route returns
RoutesCommandError_to_string(err) ==
    LET e == Head(err)
    IN  CASE e.kind = "NoSuchRoute" -> "No such route: " \o e.arg

\* InvalidCommand carrying the first segment only
InvalidCommandFirst(command) ==
    Err(<<ErrorValue("InvalidCommand", Head(command))>>)

\* Err(InvalidCommand(command.to_string())), of each of the three interpreters
InvalidCommand(command) ==
    Err(<<ErrorValue("InvalidCommand", Text(command))>>)

\* map_err that builds the outer error without boxing its cause
map_err_without_cause(kind, arg, o) ==
    IF o.status = "err" THEN Err(<<ErrorValue(kind, arg)>>)
    ELSE [status |-> o.status, err |-> << >>,
          val |-> IF o.status = "ok" THEN Some(TRUE) ELSE None]

\* .map_err(|e| Variant(arg, Box::new(e))) on the result o of the callee: an
\* error is wrapped, anything else is passed on
map_err(kind, arg, o) ==
    IF o.status = "err" THEN Err(<<ErrorValue(kind, arg)>> \o o.err)
    ELSE [status |-> o.status, err |-> << >>,
          val |-> IF o.status = "ok" THEN Some(TRUE) ELSE None]

\* RouteName::long and RouteName::short through Route::route_long_name and
\* Route::route_short_name
route_long_name(r) ==
    IF r.name.variant \in {"Long", "LongAndShort"} THEN Some(r.name.long) ELSE None

route_short_name(r) ==
    IF r.name.variant \in {"Short", "LongAndShort"} THEN Some(r.name.short) ELSE None

\* what one call did: the function entered, its receiver, its argument (a
\* command, or the id given to route and stop), how it returned, the value it
\* returned and the lines it printed
CallRecord(at, self, command, r, val, out) ==
    [at |-> at, self |-> self, command |-> command,
     status |-> r.status, err |-> r.err, val |-> val, out |-> out]

\* the result of an interpret call with, in call order, the calls it made
Outcome(r, calls) == [status |-> r.status, err |-> r.err, calls |-> calls]

\* RoutesCommandInterpreter::list: one line per route, in the map's order
routes_list(self) ==
    CallRecord("Routes::list", self, << >>, Ok(TRUE), None,
        {LET r == self.gtfs.routes[k]
         IN  r.route_id \o ": " \o
                 (IF route_long_name(r) # None /\ route_short_name(r) # None
                  THEN route_long_name(r)[1] \o " (" \o route_short_name(r)[1] \o ")"
                  ELSE name(r)) : k \in DOMAIN self.gtfs.routes})

\* RoutesCommandInterpreter::info: the number of routes
routes_info(self) ==
    CallRecord("Routes::info", self, << >>, Ok(TRUE),
               Some(Cardinality(DOMAIN self.gtfs.routes)), {})

\* StopsCommandInterpreter::list: one line per stop, in the map's order
stops_list(S) ==
    CallRecord("Stops::list", S, << >>, Ok(TRUE), None,
        {LET s == S.stops[k]
         IN  s.stop_id \o ": " \o
                 (IF get_stop_name(s) # None THEN get_stop_name(s)[1]
                  ELSE "Unnamed Location") : k \in DOMAIN S.stops})

\* StopsCommandInterpreter::info: the number of stops
stops_info(S) ==
    CallRecord("Stops::info", S, << >>, Ok(TRUE), Some(Cardinality(DOMAIN S.stops)), {})

\* a trips dispatcher that looks the first segment up among the trips
trips_interpret_lookup(S, command) ==
    LET r == IF get(S.trips, Head(command)) = None THEN InvalidCommand(command) ELSE Ok(TRUE)
    IN  {Outcome(r, <<CallRecord("Trips::interpret", S, command, r, None, {})>>)}

\* TripsCommandInterpreter::interpret: splits the command and returns Ok(())
trips_interpret(S, command) ==
    LET r == Ok(TRUE)
    IN  {Outcome(r, <<CallRecord("Trips::interpret", S, command, r, None, {})>>)}

RECURSIVE gtfs_interpret(_, _)
RECURSIVE routes_interpret(_, _)
RECURSIVE stops_interpret(_, _)

\* GtfsNode::interpret; the set of the results the call may have, one for
\* each order in which the maps it walks may be iterated
gtfs_interpret(self, command) ==
    LET first == split(command).first
        rest == split(command).rest
        here(r) == CallRecord("GtfsNode::interpret", self, command, r, None, {})
    IN  CASE first = "info" ->
               {Outcome(Ok(TRUE),
                   <<here(Ok(TRUE)),
                     CallRecord("println", self.gtfs, << >>, Ok(TRUE), None, {})>>)}
          [] first = "stops" ->
               IF try_tail(rest) = None
               THEN LET r == Err(<<ErrorValue("StopsSubcommandRequired", "")>>)
                    IN  {Outcome(r, <<here(r)>>)}
               ELSE {LET r == map_err("StopsSubcommandError", "", o)
                     IN  Outcome(r, <<here(r)>> \o o.calls) :
                        o \in stops_interpret(self.gtfs, try_tail(rest)[1])}
          [] first = "routes" ->
               IF slice_from_1(rest) = None
               THEN {Outcome(Panic, <<here(Panic)>>)}
               ELSE {LET r == map_err("RoutesCommandError", "", o)
                     IN  Outcome(r, <<here(r)>> \o o.calls) :
                        o \in routes_interpret(self, slice_from_1(rest)[1])}
          [] first = "trips" ->
               IF slice_from_1(rest) = None
               THEN {Outcome(Panic, <<here(Panic)>>)}
               ELSE {LET r == map_err("TripsCommandError", "", o)
                     IN  Outcome(r, <<here(r)>> \o o.calls) :
                        o \in trips_interpret(self.gtfs, slice_from_1(rest)[1])}
          [] OTHER ->
               LET r == InvalidCommand(command)
               IN  {Outcome(r, <<here(r)>>)}

\* RoutesCommandInterpreter::interpret, self.0 being the node self
routes_interpret(self, command) ==
    LET first == split(command).first
        rest == split(command).rest
        here(r) == CallRecord("Routes::interpret", self, command, r, None, {})
    IN  CASE first = "list" ->
               {Outcome(Ok(TRUE), <<here(Ok(TRUE)), routes_list(self)>>)}
          [] first = "info" ->
               {Outcome(Ok(TRUE), <<here(Ok(TRUE)), routes_info(self)>>)}
          [] OTHER ->
               IF get(self.gtfs.routes, first) = None
               THEN LET r == InvalidCommand(command)
                    IN  {Outcome(r, <<here(r)>>)}
               ELSE LET route_id == get(self.gtfs.routes, first)[1].route_id
                    IN  UNION {
                          LET made == route(self, route_id, ord)
                              called == CallRecord("route", self, <<route_id>>, made, made.val, {})
                          IN  CASE made.status = "err" ->
                                     LET r == Err(<<ErrorValue("ErrorGettingRoute",
                                                     RoutesCommandError_to_string(made.err))>>)
                                     IN  {Outcome(r, <<here(r), called>>)}
                                [] made.status = "ok" ->
                                     {LET r == map_err("ErrorExecutingCommandForRoute", route_id, o)
                                      IN  Outcome(r, <<here(r), called>> \o o.calls) :
                                         o \in gtfs_interpret(made.val[1], skip_first(rest))} :
                          ord \in Orders(DOMAIN self.gtfs.stop_times)}

\* StopsCommandInterpreter::interpret, self.0 being the schedule S
stops_interpret(S, command) ==
    LET first == split(command).first
        rest == split(command).rest
        here(r) == CallRecord("Stops::interpret", S, command, r, None, {})
    IN  CASE first = "list" ->
               {Outcome(Ok(TRUE), <<here(Ok(TRUE)), stops_list(S)>>)}
          [] first = "info" ->
               {Outcome(Ok(TRUE), <<here(Ok(TRUE)), stops_info(S)>>)}
          [] OTHER ->
               IF get(S.stops, first) = None
               THEN LET r == InvalidCommand(command)
                    IN  {Outcome(r, <<here(r)>>)}
               ELSE LET stop_id == get(S.stops, first)[1].stop_id
                    IN  UNION {
                          LET made == stop(S, stop_id, ord)
                              called == CallRecord("stop", S, <<stop_id>>, made, made.val, {})
                          IN  CASE made.status = "err" ->
                                     LET r == Err(<<ErrorValue("ErrorGettingStop",
                                                     StopCommandError_to_string(made.err))>>)
                                     IN  {Outcome(r, <<here(r), called>>)}
                                [] made.status = "overflow" ->
                                     {Outcome(StackOverflow, <<here(StackOverflow), called>>)}
                                [] made.status = "ok" ->
                                     {LET r == map_err("ErrorExecutingCommandForStop", stop_id, o)
                                      IN  Outcome(r, <<here(r), called>> \o o.calls) :
                                         o \in gtfs_interpret(made.val[1], skip_first(rest))} :
                          ord \in Orders(DOMAIN S.stop_times)}

---------------------------------------------------------------------------
(* The command line: a command interpreted at the root node of a feed *)

\* the stop tables of the feeds commands are issued on: A a station or a stop
\* under A1, A1 a stop with or without parent A, B a stop of its own
DispatchStopTables ==
    {t \in StopTables :
        /\ t["A"] \in {StationA, StopRecord("A", "Stop", Some("Downtown"), Some("A1"))}
        /\ "A1" \in DOMAIN t
        /\ t["A1"] \in {PlatformA1, StopRecord("A1", "Stop", Some("Platform 1"), None)}
        /\ "B" \in DOMAIN t
        /\ t["B"] = StopRecord("B", "Stop", Some("Harbour"), None)}

DispatchFeeds ==
    {GtfsSchedule(st, BaseRoutes, BaseTrips, LoadStopTimes(BaseStopTimeFile)) :
        st \in DispatchStopTables}

\* the segments commands end with: the empty segment, the two actions and a
\* segment that is no word and no id
Segments == {"", "info", "list", "zz"}

\* a collection name followed by an id
NavPairs ==
    {<<"stops", "A">>} \cup {<<"routes", r>> : r \in RouteIds}

\* the commands made of n such pairs
RECURSIVE PathsOf(_)
PathsOf(n) ==
    IF n = 0 THEN {<< >>}
    ELSE {p \o q : p \in PathsOf(n - 1), q \in NavPairs}

\* the commands issued: up to MaxPath pairs, then possibly a collection name,
\* then up to MaxTail segments
Commands ==
    {p \o c \o t : p \in UNION {PathsOf(n) : n \in 0..MaxPath},
                   c \in {<< >>, <<"stops">>, <<"routes">>, <<"trips">>},
                   t \in UNION {[1..n -> Segments] : n \in 0..MaxTail}} \ {<< >>}

NoOutcome == [status |-> "none", err |-> << >>, calls |-> << >>]

DispatchInit ==
    /\ root \in {RootNode(f) : f \in DispatchFeeds}
    /\ node = root
    /\ depth = 0
    /\ call = NoCall
    /\ result = NoOutcome

\* interpret with its receiver taken mutably: the node of the last projection
\* the command made is left as the current node
InterpretInPlace(command) ==
    /\ call = NoCall
    /\ \E r \in gtfs_interpret(node, command) :
          /\ result' = r
          /\ LET made == SelectSeq(r.calls, LAMBDA c : c.at \in {"route", "stop"}
                                                       /\ c.status = "ok")
             IN  node' = IF made = << >> THEN node ELSE made[Len(made)].val[1]
    /\ call' = [op |-> "interpret", id |-> Text(command), self |-> Some(node)]
    /\ UNCHANGED <<root, depth>>

\* node.interpret(command): the node is borrowed and stays the current node
Interpret(command) ==
    /\ call = NoCall
    /\ \E r \in gtfs_interpret(node, command) : result' = r
    /\ call' = [op |-> "interpret", id |-> Text(command), self |-> Some(node)]
    /\ UNCHANGED <<root, node, depth>>

DispatchNext == \E command \in Commands : Interpret(command)

DispatchSpec == DispatchInit /\ [][DispatchNext]_vars

---------------------------------------------------------------------------
(* Commands on a feed whose ids are action words or hold a '.': the ids    *)
(* list, info, A.B and R1.x, beside or without the plain ids A and R1.     *)

\* most segments of such a command
MaxWords == 3

\* stops.txt: the stops list, info and A.B, and possibly A
ReservedStopTables ==
    {  ("list" :> StopRecord("list", "Stop", Some("List St"), None))
    @@ ("info" :> StopRecord("info", "Stop", Some("Info Desk"), None))
    @@ ("A.B" :> StopRecord("A.B", "Stop", Some("Annex"), None))
    @@ plain :
        plain \in {EmptyMap, ("A" :> StopRecord("A", "Stop", Some("Downtown"), None))}}

\* routes.txt: the routes list, info and R1.x, and possibly R1
ReservedRouteTables ==
    {  ("list" :> RouteRecord("list", "Short", "", "L"))
    @@ ("info" :> RouteRecord("info", "Short", "", "I"))
    @@ ("R1.x" :> RouteRecord("R1.x", "Short", "", "1x"))
    @@ plain :
        plain \in {EmptyMap, ("R1" :> RouteR1)}}

ReservedTrips ==
    ("T1" :> TripRecord("T1", "list")) @@ ("T2" :> TripRecord("T2", "R1.x"))

ReservedStopTimeFile ==
    <<StopTimeRecord("T1", Some("A.B"), 1), StopTimeRecord("T2", Some("list"), 2)>>

ReservedFeeds ==
    {GtfsSchedule(st, r, ReservedTrips, LoadStopTimes(ReservedStopTimeFile)) :
        st \in ReservedStopTables, r \in ReservedRouteTables}

\* the segments of the commands: the collection names, the actions and the
\* segments of the ids
Words == {"stops", "routes", "list", "info", "A", "B", "R1", "x"}

ReservedCommands == UNION {[1..n -> Words] : n \in 1..MaxWords}

ReservedInit ==
    /\ root \in {RootNode(f) : f \in ReservedFeeds}
    /\ node = root
    /\ depth = 0
    /\ call = NoCall
    /\ result = NoOutcome

ReservedNext == \E command \in ReservedCommands : Interpret(command)

ReservedSpec == ReservedInit /\ [][ReservedNext]_vars

---------------------------------------------------------------------------
(* What the claims speak of *)

\* the schedule the last call was made on, and the schedule it returned
Src == call.self[1].gtfs
Res == result.val[1].gtfs

Returned == call.op # "none" /\ result.status = "ok"

\* m restricted to the keys in K
Restrict(m, K) == [k \in K |-> m[k]]

\* the trips of S that run on route r
TripsOfRoute(S, r) == {t \in DOMAIN S.trips : S.trips[t].route_id = r}

\* the stops of S whose recorded parent is a member of D
ChildrenOf(S, D) ==
    {c \in DOMAIN S.stops :
        /\ parent_station(S.stops[c]) # None
        /\ parent_station(S.stops[c])[1] \in D}

\* the least set of stops of S that holds D and the children of its members
RECURSIVE DescendantClosure(_, _)
DescendantClosure(S, D) ==
    LET grown == D \cup ChildrenOf(S, D)
    IN  IF grown = D THEN D ELSE DescendantClosure(S, grown)

\* the ids reached from the members of D by following parent_station upwards
RECURSIVE AncestorClosure(_, _)
AncestorClosure(S, D) ==
    LET up == {parent_station(S.stops[k])[1] :
                  k \in {x \in D \cap DOMAIN S.stops : parent_station(S.stops[x]) # None}}
        grown == D \cup up
    IN  IF grown = D THEN up ELSE AncestorClosure(S, grown) \cup up

\* the trips of S with a stop-time at one of the stops D
TripsVisiting(S, D) ==
    {t \in DOMAIN S.trips :
        \E e \in Entries(S) : e.trip_id = t /\ e.stop_id # None /\ e.stop_id[1] \in D}

---------------------------------------------------------------------------
(* Claims *)

\* C1: for a route id r present in S.routes, project-by-route returns a schedule
\* whose routes are exactly {r}, whose trips are exactly the trips of S with
\* route_id = r, and whose stops are exactly the stops of S named by the stop_id
\* of at least one stop-time of those trips.
C1_RouteProjectionExact ==
    (call.op = "route" /\ call.id \in DOMAIN Src.routes) =>
        /\ result.status = "ok"
        /\ Res.routes = Restrict(Src.routes, {call.id})
        /\ Res.trips = Restrict(Src.trips, TripsOfRoute(Src, call.id))
        /\ Res.stops = Restrict(Src.stops,
              {s \in DOMAIN Src.stops :
                  \E e \in Entries(Src) :
                      e.stop_id = Some(s) /\ e.trip_id \in TripsOfRoute(Src, call.id)})

\* a route projection that kept a trip and a stop and left a trip and a stop behind
C1_Witness ==
    /\ call.op = "route" /\ result.status = "ok"
    /\ DOMAIN Res.trips # {} /\ DOMAIN Res.trips # DOMAIN Src.trips
    /\ DOMAIN Res.stops # {} /\ DOMAIN Res.stops # DOMAIN Src.stops

\* C2: project-by-stop on a stop s of S returns as stops s and every transitive
\* descendant of s under parent_station, no ancestor of s and no stop outside
\* that subtree; a stop without children projects to exactly {s}.
C2_StopClosureExact ==
    (call.op = "stop" /\ result.status = "ok") =>
        /\ call.id \in DOMAIN Src.stops
        /\ Res.stops = Restrict(Src.stops, DescendantClosure(Src, {call.id}))
        /\ AncestorClosure(Src, {call.id}) \cap DOMAIN Res.stops = {}
        /\ (ChildrenOf(Src, {call.id}) = {} => DOMAIN Res.stops = {call.id})

\* a stop projection that reached a grandchild of the selected stop
C2_Witness ==
    /\ call.op = "stop" /\ result.status = "ok"
    /\ \E g \in DOMAIN Res.stops :
          /\ g # call.id
          /\ parent_station(Res.stops[g]) # Some(call.id)

\* C3: the trips returned by project-by-stop are exactly the trips of S with a
\* stop-time at a stop of the descendant closure of s, and the routes exactly
\* the routes of S owning such a trip.
C3_StopProjectionTripsRoutes ==
    (call.op = "stop" /\ result.status = "ok") =>
        LET visiting == TripsVisiting(Src, DescendantClosure(Src, {call.id}))
        IN  /\ Res.trips = Restrict(Src.trips, visiting)
            /\ Res.routes = Restrict(Src.routes,
                  {r \in DOMAIN Src.routes : \E t \in visiting : Src.trips[t].route_id = r})

\* a stop projection that kept a trip visiting a descendant only, with its
\* route, and left another trip and another route behind
C3_Witness ==
    /\ call.op = "stop" /\ result.status = "ok"
    /\ DOMAIN Res.trips # {} /\ DOMAIN Res.trips # DOMAIN Src.trips
    /\ DOMAIN Res.routes # {} /\ DOMAIN Res.routes # DOMAIN Src.routes
    /\ \A e \in Entries(Res) : e.stop_id # Some(call.id)

\* C4: project-by-route and project-by-stop are total: whatever the shape of
\* the parent_station references, every call ends with a schedule or an error.
C4_ProjectionTerminates ==
    call.op # "none" => result.status \in {"ok", "err"}

\* C5: in every schedule a projection returns, the trip_id of every stop-time
\* entry is the id of a trip of that schedule.
C5_StopTimeTripsPresent ==
    Returned => \A e \in Entries(Res) : e.trip_id \in DOMAIN Res.trips

\* C6: every schedule a projection returns is referentially closed: each trip's
\* route_id is one of its routes and each stop-time's stop_id, when it has one,
\* is one of its stops.
C6_ReferentiallyClosed ==
    Returned =>
        /\ \A t \in DOMAIN Res.trips : Res.trips[t].route_id \in DOMAIN Res.routes
        /\ \A e \in Entries(Res) : e.stop_id # None => e.stop_id[1] \in DOMAIN Res.stops

\* C7: the stop_times map returned by project-by-route is grouped by trip_id:
\* every stop-time stored under key k has trip_id = k.
C7_RouteStopTimesKeyedByTrip ==
    (call.op = "route" /\ result.status = "ok") =>
        \A k \in DOMAIN Res.stop_times :
            \A e \in Range(Res.stop_times[k]) : e.trip_id = k

\* C8: the stop-time entries returned by project-by-route on r are exactly the
\* entries of S whose trip_id belongs to a trip of route r.
C8_RouteStopTimesExact ==
    (call.op = "route" /\ result.status = "ok") =>
        Entries(Res) = {e \in Entries(Src) : e.trip_id \in TripsOfRoute(Src, call.id)}

\* C9: with an id absent from the addressed collection, project-by-route
\* returns NoSuchRoute and project-by-stop returns NoSuchStop, carrying the id.
C9_MissingSelectorIsError ==
    /\ (call.op = "route" /\ call.id \notin DOMAIN Src.routes) =>
          result = Err(<<ErrorValue("NoSuchRoute", call.id)>>)
    /\ (call.op = "stop" /\ call.id \notin DOMAIN Src.stops) =>
          result = Err(<<ErrorValue("NoSuchStop", call.id)>>)

\* a route projection that failed on a route id the root feed has and the
\* projected schedule it was called on lacks
C9_Witness ==
    /\ call.op = "route"
    /\ result.status = "err"
    /\ depth > 0
    /\ call.id \notin DOMAIN Src.routes
    /\ call.id \in DOMAIN root.gtfs.routes

\* C10: a projection on an id present in the addressed collection returns Ok,
\* with empty collections for the kinds it does not reach.
C10_PresentSelectorIsOk ==
    /\ (call.op = "route" /\ call.id \in DOMAIN Src.routes) =>
          /\ result.status = "ok"
          /\ (TripsOfRoute(Src, call.id) = {} =>
                /\ DOMAIN Res.routes = {call.id}
                /\ DOMAIN Res.trips = {}
                /\ DOMAIN Res.stops = {}
                /\ DOMAIN Res.stop_times = {})
    /\ (call.op = "stop" /\ call.id \in DOMAIN Src.stops) => result.status = "ok"

---------------------------------------------------------------------------
(* Loading a route: Route::try_from on the fields of one record of         *)
(* routes.txt, a HashMap from the header's column names to the record's    *)
(* strings.                                                                *)

\* fields.get(key) with no filter: an empty string counts as a value
get_unfiltered(fields, key) ==
    IF key \in DOMAIN fields THEN Some(fields[key]) ELSE None

\* fields.get(key).filter(|s| !s.is_empty())
get_non_empty(fields, key) ==
    IF key \in DOMAIN fields /\ fields[key] # "" THEN Some(fields[key]) ELSE None

\* RouteName::try_from
RouteName_try_from(fields) ==
    LET short_name == get_non_empty(fields, "route_short_name")
        long_name == get_non_empty(fields, "route_long_name")
    IN  CASE short_name # None /\ long_name # None ->
               Ok([variant |-> "LongAndShort", long |-> long_name[1], short |-> short_name[1]])
          [] short_name # None /\ long_name = None ->
               Ok([variant |-> "Short", long |-> "", short |-> short_name[1]])
          [] short_name = None /\ long_name # None ->
               Ok([variant |-> "Long", long |-> long_name[1], short |-> ""])
          [] short_name = None /\ long_name = None ->
               Err(<<ErrorValue("String", "route_short_name or route_long_name is required")>>)

\* str::parse::<u8> on the strings a route_type or location_type column
\* holds here
parse_u8(s) ==
    CASE s = "0" -> Ok(0)
      [] s = "3" -> Ok(3)
      [] s = "12" -> Ok(12)
      [] s = "1" -> Ok(1)
      [] s = "2" -> Ok(2)
      [] s = "4" -> Ok(4)
      [] s = "5" -> Ok(5)
      [] s = "256" -> Err(<<ErrorValue("ParseIntError", "number too large to fit in target type")>>)
      [] s = "" -> Err(<<ErrorValue("ParseIntError", "cannot parse integer from empty string")>>)
      [] s = "x" -> Err(<<ErrorValue("ParseIntError", "invalid digit found in string")>>)

\* RouteType::try_from: a missing column reads as "0"
RouteType_try_from(fields) ==
    LET route_type == IF "route_type" \in DOMAIN fields THEN fields["route_type"] ELSE "0"
        parsed == parse_u8(route_type)
    IN  IF parsed.status = "err"
        THEN Err(<<ErrorValue("String",
                    "invalid route_type '" \o route_type \o "': " \o parsed.err[1].arg)>>)
        ELSE IF parsed.val[1] \in 0..9
        THEN Ok(parsed.val[1])
        ELSE Err(<<ErrorValue("String",
                    "failed to load route type '" \o route_type
                        \o "': invalid route_type '" \o route_type \o "'")>>)

\* Route::try_from, for records that hold the columns route_id,
\* route_short_name, route_long_name and route_type
Route_try_from(fields) ==
    LET route_id == get_non_empty(fields, "route_id")
        route_name == RouteName_try_from(fields)
        route_type == RouteType_try_from(fields)
    IN  CASE route_id = None -> Err(<<ErrorValue("RouteIdRequired", "")>>)
          [] route_id # None /\ route_name.status = "err" ->
               Err(<<ErrorValue("RouteNameError", route_name.err[1].arg)>>)
          [] route_id # None /\ route_name.status = "ok" /\ route_type.status = "err" ->
               Err(<<ErrorValue("RouteTypeError", route_type.err[1].arg)>>)
          [] OTHER ->
               Ok(RouteRecord(route_id[1], route_name.val[1].variant,
                              route_name.val[1].long, route_name.val[1].short))

\* the strings a record may hold in each column; None is a column the header
\* does not have
ColumnValues ==
    [route_id |-> {None, Some(""), Some("R1")},
     route_short_name |-> {None, Some(""), Some("RL")},
     route_long_name |-> {None, Some(""), Some("Red Line")},
     route_type |-> {None, Some(""), Some("0"), Some("3"), Some("12"), Some("x")}]

\* the records of routes.txt, zipped with the header
RouteFields ==
    {TableOf(c) : c \in {f \in [DOMAIN ColumnValues ->
                                   UNION {ColumnValues[k] : k \in DOMAIN ColumnValues}] :
                            \A k \in DOMAIN ColumnValues : f[k] \in ColumnValues[k]}}

RouteLoadInit ==
    /\ root \in RouteFields
    /\ node = root
    /\ depth = 0
    /\ call = NoCall
    /\ result = NoResult

\* Route::try_from(fields) on the record
LoadRoute ==
    /\ call = NoCall
    /\ call' = [op |-> "Route::try_from", id |-> "", self |-> Some(root)]
    /\ result' = Route_try_from(root)
    /\ UNCHANGED <<root, node, depth>>

RouteLoadNext == LoadRoute

RouteLoadSpec == RouteLoadInit /\ [][RouteLoadNext]_vars

---------------------------------------------------------------------------
(* Loading a stop: Stop::try_from on the fields of one record of           *)
(* stops.txt, and the accessors of the Stop it yields.                     *)

\* str::parse::<f64> on the strings a stop_lat or stop_lon column holds here;
\* the value is kept in tenths of a degree
parse_f64(s) ==
    CASE s = "1.5" -> Ok(15)
      [] s = "1.50" -> Ok(15)
      [] s = "-91" -> Ok(-910)
      [] s = "2" -> Ok(20)
      [] s = "" -> Err(<<ErrorValue("ParseFloatError", "cannot parse float from empty string")>>)
      [] s = "x" -> Err(<<ErrorValue("ParseFloatError", "invalid float literal")>>)

\* fields.get(key).filter(..).ok_or("<key> is required")?.clone()
required_string(fields, key) ==
    IF get_non_empty(fields, key) = None
    THEN Err(<<ErrorValue("String", key \o " is required")>>)
    ELSE Ok(get_non_empty(fields, key)[1])

\* fields.get(key).filter(..).ok_or("<key> is required")?.parse::<f64>()
\*     .map_err(|err| format!("invalid <key> '{}': {}", .., err))?
required_f64(fields, key) ==
    IF get_non_empty(fields, key) = None
    THEN Err(<<ErrorValue("String", key \o " is required")>>)
    ELSE LET parsed == parse_f64(fields[key])
         IN  IF parsed.status = "err"
             THEN Err(<<ErrorValue("String", "invalid " \o key \o " '" \o fields[key]
                                      \o "': " \o parsed.err[1].arg)>>)
             ELSE parsed

\* match fields.get(key).filter(..).map(|s| s.parse::<f64>().map_err(..))
\*     { Some(res) => res.map(Some), None => Ok(None) }?
optional_f64(fields, key) ==
    IF get_non_empty(fields, key) = None
    THEN Ok(None)
    ELSE LET parsed == parse_f64(fields[key])
         IN  IF parsed.status = "err"
             THEN Err(<<ErrorValue("String", "invalid " \o key \o " '" \o fields[key]
                                      \o "': " \o parsed.err[1].arg)>>)
             ELSE Ok(Some(parsed.val[1]))

\* the LocationTypeDetails variant with its fields; a field the variant's
\* struct does not have is None, a String or f64 field of the struct is Some
LocationTypeDetails(location_type, stop_name, stop_lat, stop_lon, parent) ==
    [location_type |-> location_type, stop_name |-> stop_name,
     stop_lat |-> stop_lat, stop_lon |-> stop_lon, parent_station |-> parent]

\* StopDetails::try_from
StopDetails_try_from(fields) ==
    LET stop_name == required_string(fields, "stop_name")
        lat == required_f64(fields, "stop_lat")
        lon == required_f64(fields, "stop_lon")
    IN  CASE stop_name.status = "err" -> stop_name
          [] stop_name.status = "ok" /\ lat.status = "err" -> lat
          [] stop_name.status = "ok" /\ lat.status = "ok" /\ lon.status = "err" -> lon
          [] OTHER ->
               Ok(LocationTypeDetails("Stop", stop_name.val, lat.val, lon.val,
                                      get_non_empty(fields, "parent_station")))

\* StationDetails::try_from
StationDetails_try_from(fields) ==
    LET stop_name == required_string(fields, "stop_name")
        lat == required_f64(fields, "stop_lat")
        lon == required_f64(fields, "stop_lon")
    IN  CASE stop_name.status = "err" -> stop_name
          [] stop_name.status = "ok" /\ lat.status = "err" -> lat
          [] stop_name.status = "ok" /\ lat.status = "ok" /\ lon.status = "err" -> lon
          [] OTHER ->
               Ok(LocationTypeDetails("Station", stop_name.val, lat.val, lon.val, None))

\* EntranceExitDetails::try_from
EntranceExitDetails_try_from(fields) ==
    LET stop_name == required_string(fields, "stop_name")
        lat == required_f64(fields, "stop_lat")
        lon == required_f64(fields, "stop_lon")
        parent == required_string(fields, "parent_station")
    IN  CASE stop_name.status = "err" -> stop_name
          [] stop_name.status = "ok" /\ lat.status = "err" -> lat
          [] stop_name.status = "ok" /\ lat.status = "ok" /\ lon.status = "err" -> lon
          [] stop_name.status = "ok" /\ lat.status = "ok" /\ lon.status = "ok"
               /\ parent.status = "err" -> parent
          [] OTHER ->
               Ok(LocationTypeDetails("EntranceExit", stop_name.val, lat.val, lon.val,
                                      parent.val))

\* the optional name and position and the required parent that
\* GenericNodeDetails::try_from and BoardingAreaDetails::try_from both read
NodeDetails_try_from(fields, location_type) ==
    LET lat == optional_f64(fields, "stop_lat")
        lon == optional_f64(fields, "stop_lon")
        parent == required_string(fields, "parent_station")
    IN  CASE lat.status = "err" -> lat
          [] lat.status = "ok" /\ lon.status = "err" -> lon
          [] lat.status = "ok" /\ lon.status = "ok" /\ parent.status = "err" -> parent
          [] OTHER ->
               Ok(LocationTypeDetails(location_type, get_non_empty(fields, "stop_name"),
                                      lat.val[1], lon.val[1], parent.val))

\* GenericNodeDetails::try_from
GenericNodeDetails_try_from(fields) == NodeDetails_try_from(fields, "GenericNode")

\* BoardingAreaDetails::try_from
BoardingAreaDetails_try_from(fields) == NodeDetails_try_from(fields, "BoardingArea")

\* the column read under a name that no record has, so that every record
\* reads as location type "0"
location_type_ignored(fields) == "0"

\* fields.get("location_type").unwrap_or(&zero_str)
location_type_of(fields) ==
    IF "location_type" \in DOMAIN fields THEN fields["location_type"] ELSE "0"

\* LocationTypeDetails::try_from
LocationTypeDetails_try_from(fields) ==
    LET location_type == location_type_of(fields)
        parsed == parse_u8(location_type)
        details ==
            CASE parsed.val = <<0>> -> StopDetails_try_from(fields)
              [] parsed.val = <<1>> -> StationDetails_try_from(fields)
              [] parsed.val = <<2>> -> EntranceExitDetails_try_from(fields)
              [] parsed.val = <<3>> -> GenericNodeDetails_try_from(fields)
              [] parsed.val = <<4>> -> BoardingAreaDetails_try_from(fields)
              [] OTHER -> Err(<<ErrorValue("String",
                                  "invalid location_type '" \o location_type \o "'")>>)
    IN  IF parsed.status = "err"
        THEN Err(<<ErrorValue("String", "invalid location_type '" \o location_type
                                 \o "': " \o parsed.err[1].arg)>>)
        ELSE IF details.status = "err"
        THEN Err(<<ErrorValue("String", "failed to load location as type '"
                                 \o location_type \o "': " \o details.err[1].arg)>>)
        ELSE details

\* the wheelchair_boarding field of Stop::try_from
wheelchair_boarding_of(fields) ==
    LET wheelchair_boarding == get_non_empty(fields, "wheelchair_boarding")
    IN  CASE wheelchair_boarding = None -> Ok(None)
          [] wheelchair_boarding = Some("0") -> Ok(None)
          [] wheelchair_boarding = Some("1") -> Ok(Some(TRUE))
          [] wheelchair_boarding = Some("2") -> Ok(Some(FALSE))
          [] OTHER -> Err(<<ErrorValue("String", "Invalid wheelchair_boarding: "
                                          \o wheelchair_boarding[1])>>)

\* Stop::try_from, for records that hold the columns stop_id, location_type,
\* stop_name, stop_lat, stop_lon, parent_station and wheelchair_boarding; the
\* Stop is its id and the fields of its LocationTypeDetails
Stop_try_from(fields) ==
    LET stop_id == required_string(fields, "stop_id")
        details == LocationTypeDetails_try_from(fields)
        wheelchair_boarding == wheelchair_boarding_of(fields)
    IN  CASE stop_id.status = "err" -> stop_id
          [] stop_id.status = "ok" /\ details.status = "err" -> details
          [] stop_id.status = "ok" /\ details.status = "ok"
               /\ wheelchair_boarding.status = "err" -> wheelchair_boarding
          [] OTHER ->
               Ok([stop_id |-> stop_id.val[1],
                   location_type |-> details.val[1].location_type,
                   stop_name |-> details.val[1].stop_name,
                   stop_lat |-> details.val[1].stop_lat,
                   stop_lon |-> details.val[1].stop_lon,
                   parent_station |-> details.val[1].parent_station,
                   wheelchair_boarding |-> wheelchair_boarding.val[1]])

\* stop_lat that reports no latitude for any stop
stop_lat_absent(s) == None

\* Stop::stop_lat
stop_lat(s) ==
    CASE s.location_type = "Stop" -> Some(s.stop_lat[1])
      [] s.location_type = "Station" -> Some(s.stop_lat[1])
      [] s.location_type = "EntranceExit" -> Some(s.stop_lat[1])
      [] s.location_type = "GenericNode" -> s.stop_lat
      [] s.location_type = "BoardingArea" -> s.stop_lat

\* Stop::stop_lon
stop_lon(s) ==
    CASE s.location_type = "Stop" -> Some(s.stop_lon[1])
      [] s.location_type = "Station" -> Some(s.stop_lon[1])
      [] s.location_type = "EntranceExit" -> Some(s.stop_lon[1])
      [] s.location_type = "GenericNode" -> s.stop_lon
      [] s.location_type = "BoardingArea" -> s.stop_lon

\* the strings a record of stops.txt may hold in each column; None is a column
\* the header does not have
StopColumnValues ==
    [stop_id |-> {None, Some(""), Some("S")},
     location_type |-> {None, Some(""), Some("0"), Some("1"), Some("2"), Some("3"),
                        Some("4"), Some("5"), Some("256"), Some("x")},
     stop_name |-> {None, Some(""), Some("Main St")},
     stop_lat |-> {None, Some(""), Some("1.5"), Some("x")},
     stop_lon |-> {None, Some("-91"), Some("x")},
     parent_station |-> {None, Some(""), Some("P")},
     wheelchair_boarding |-> {None, Some("1"), Some("7")}]

\* the records of stops.txt, zipped with the header
StopFields ==
    {TableOf([stop_id |-> id, location_type |-> location_type, stop_name |-> stop_name,
              stop_lat |-> lat, stop_lon |-> lon, parent_station |-> parent,
              wheelchair_boarding |-> wheelchair_boarding]) :
        id \in StopColumnValues.stop_id,
        location_type \in StopColumnValues.location_type,
        stop_name \in StopColumnValues.stop_name,
        lat \in StopColumnValues.stop_lat,
        lon \in StopColumnValues.stop_lon,
        parent \in StopColumnValues.parent_station,
        wheelchair_boarding \in StopColumnValues.wheelchair_boarding}

StopLoadInit ==
    /\ root \in StopFields
    /\ node = None
    /\ depth = 0
    /\ call = NoCall
    /\ result = NoResult

\* Stop::try_from(fields) on the record
LoadStop ==
    /\ call = NoCall
    /\ call' = [op |-> "Stop::try_from", id |-> "", self |-> Some(root)]
    /\ result' = Stop_try_from(root)
    /\ UNCHANGED <<root, node, depth>>

\* the Stop the caller holds: the result of Stop::try_from, or what the
\* last mut_stop_name / take_stop_name left of it
HoldsStop == result.status = "ok" /\ result.val # None

\* the four accessors read on the Stop
ReadStop ==
    /\ HoldsStop
    /\ call.op # "accessors"
    /\ call' = [call EXCEPT !.op = "accessors"]
    /\ node' = Some([get_stop_name |-> get_stop_name(result.val[1]),
                     stop_lat |-> stop_lat(result.val[1]),
                     stop_lon |-> stop_lon(result.val[1]),
                     parent_station |-> parent_station(result.val[1])])
    /\ UNCHANGED <<root, depth, result>>

\* the names a caller writes through the reference mut_stop_name returns
NewNames == {"Renamed", ""}

\* Stop::mut_stop_name: the reference to the name, None for a GenericNode or
\* BoardingArea without a name
mut_stop_name(s) ==
    CASE s.location_type = "Stop" -> Some(s.stop_name[1])
      [] s.location_type = "Station" -> Some(s.stop_name[1])
      [] s.location_type = "EntranceExit" -> Some(s.stop_name[1])
      [] s.location_type = "GenericNode" -> s.stop_name
      [] s.location_type = "BoardingArea" -> s.stop_name

\* Stop::take_stop_name: the name, and the Stop without it when its variant
\* allows a Stop without a name
take_stop_name(s) ==
    CASE s.location_type = "Stop" -> [name |-> Some(s.stop_name[1]), stop |-> None]
      [] s.location_type = "Station" -> [name |-> Some(s.stop_name[1]), stop |-> None]
      [] s.location_type = "EntranceExit" -> [name |-> Some(s.stop_name[1]), stop |-> None]
      [] s.location_type = "GenericNode" ->
           [name |-> s.stop_name, stop |-> Some([s EXCEPT !.stop_name = None])]
      [] s.location_type = "BoardingArea" ->
           [name |-> s.stop_name, stop |-> Some([s EXCEPT !.stop_name = None])]

\* if let Some(name) = stop.mut_stop_name() { *name = new_name }
MutStopName(new_name) ==
    /\ HoldsStop
    /\ call' = [call EXCEPT !.op = "mut_stop_name", !.id = new_name]
    /\ node' = mut_stop_name(result.val[1])
    /\ result' = IF mut_stop_name(result.val[1]) = None THEN result
                 ELSE Ok([result.val[1] EXCEPT !.stop_name = Some(new_name)])
    /\ UNCHANGED <<root, depth>>

\* let (name, stop) = stop.take_stop_name(): the Stop is consumed, and the
\* caller holds the Stop that comes back, if one does
TakeStopName ==
    /\ HoldsStop
    /\ call' = [call EXCEPT !.op = "take_stop_name", !.id = ""]
    /\ node' = take_stop_name(result.val[1]).name
    /\ result' = [result EXCEPT !.val = take_stop_name(result.val[1]).stop]
    /\ UNCHANGED <<root, depth>>

StopLoadNext ==
    \/ LoadStop
    \/ ReadStop
    \/ \E new_name \in NewNames : MutStopName(new_name)
    \/ TakeStopName

StopLoadSpec == StopLoadInit /\ [][StopLoadNext]_vars

---------------------------------------------------------------------------
(* Parsing a time of day: parse_time of src/src/gtfs/stop_times.rs.  The   *)
(* string is the sequence of the segments that split(':') yields: "24:0:0" *)
(* is <<"24", "0", "0">> and "" is <<"">>.                                 *)

\* most segments a time string is split into
MaxSegments == 4

\* the string whose split at ':' is segments
RECURSIVE TimeText(_)
TimeText(segments) ==
    IF Len(segments) = 1 THEN Head(segments)
    ELSE Head(segments) \o ":" \o TimeText(Tail(segments))

\* str::parse::<u32> on the segments a time string holds here
parse_u32(s) ==
    CASE s = "0" -> Ok(0)
      [] s = "24" -> Ok(24)
      [] s = "25" -> Ok(25)
      [] s = "59" -> Ok(59)
      [] s = "60" -> Ok(60)
      [] s = "+5" -> Ok(5)
      [] s = "" -> Err(<<ErrorValue("ParseIntError", "cannot parse integer from empty string")>>)
      [] s = "x" -> Err(<<ErrorValue("ParseIntError", "invalid digit found in string")>>)
      [] s = "-1" -> Err(<<ErrorValue("ParseIntError", "invalid digit found in string")>>)
      [] s = "4294967296" ->
           Err(<<ErrorValue("ParseIntError", "number too large to fit in target type")>>)

\* chrono::NaiveTime::from_hms_opt
from_hms_opt(hour, min, sec) ==
    IF hour < 24 /\ min < 60 /\ sec < 60
    THEN Some([hour |-> hour, minute |-> min, second |-> sec])
    ELSE None

\* the hour segment taken as it is parsed
hour_unreduced(parsed) == parsed

\* the hour segment % 24
hour_of_day(parsed) == parsed % 24

\* parse_time
parse_time(segments) ==
    IF Len(segments) # 3
    THEN Err(<<ErrorValue("ImproperNumberOfSegments", "")>>)
    ELSE LET h == parse_u32(segments[1])
             m == parse_u32(segments[2])
             sec == parse_u32(segments[3])
         IN  CASE h.status = "err" ->
                    Err(<<ErrorValue("InvalidHourSegment", h.err[1].arg)>>)
               [] h.status = "ok" /\ m.status = "err" ->
                    Err(<<ErrorValue("InvalidMinuteSegment", m.err[1].arg)>>)
               [] h.status = "ok" /\ m.status = "ok" /\ sec.status = "err" ->
                    Err(<<ErrorValue("InvalidSecondSegment", sec.err[1].arg)>>)
               [] OTHER ->
                    LET hours == hour_of_day(h.val[1])
                        time == from_hms_opt(hours, m.val[1], sec.val[1])
                    IN  IF time = None
                        THEN Err(<<ErrorValue("InvalidTime",
                                       <<hours, m.val[1], sec.val[1]>>)>>)
                        ELSE Ok(time[1])

\* the segments a time column may hold
TimeSegments == {"0", "24", "25", "59", "60", "+5", "", "x", "-1", "4294967296"}

\* the strings handed to parse_time, split at ':'
TimeStrings == UNION {[1..n -> TimeSegments] : n \in 1..MaxSegments}

ParseTimeInit ==
    /\ root \in TimeStrings
    /\ node = None
    /\ depth = 0
    /\ call = NoCall
    /\ result = NoResult

\* parse_time(s) on the string
ParseTime ==
    /\ call = NoCall
    /\ call' = [op |-> "parse_time", id |-> TimeText(root), self |-> Some(root)]
    /\ result' = parse_time(root)
    /\ UNCHANGED <<root, node, depth>>

ParseTimeNext == ParseTime

ParseTimeSpec == ParseTimeInit /\ [][ParseTimeNext]_vars

---------------------------------------------------------------------------
(* Loading an archive: ZipLoader::load of                                  *)
(* src/src/gtfs/loaders/zip_loader.rs, one step per file opened and per    *)
(* table loaded.  root is the archive, node the events the handler has     *)
(* received, depth the number of steps load has completed.  A record of a  *)
(* table is "good" or "bad" after what its try_from returns.               *)

\* most records a table of the archive holds
MaxRecords == 1

\* the four tables in the order load reads them, with the file, the errors
\* and the events of each
LoadOrder ==
    <<[table |-> "stops", file |-> "stops.txt",
       open_error |-> "FailedToOpenStops", load_error |-> "FailedToLoadStops",
       record_error |-> "StopLoadError",
       opened |-> "on_stops_file_opened", loaded |-> "on_stops_loaded"],
      [table |-> "routes", file |-> "routes.txt",
       open_error |-> "FailedToOpenRoutes", load_error |-> "FailedToLoadRoutes",
       record_error |-> "RouteLoadError",
       opened |-> "on_routes_file_opened", loaded |-> "on_routes_loaded"],
      [table |-> "trips", file |-> "trips.txt",
       open_error |-> "FailedToOpenTrips", load_error |-> "FailedToLoadTrips",
       record_error |-> "TripLoadError",
       opened |-> "on_trips_file_opened", loaded |-> "on_trips_loaded"],
      [table |-> "stop_times", file |-> "stop_times.txt",
       open_error |-> "FailedToOpenStopTimes", load_error |-> "FailedToLoadStopTimes",
       record_error |-> "StopTimeLoadError",
       opened |-> "on_stop_times_file_opened", loaded |-> "on_stop_times_loaded"]>>

\* self.zip.by_name(file): the file's records, or FileNotFound
by_name(zip, i) ==
    IF zip[LoadOrder[i].table] = None
    THEN Err(<<ErrorValue(LoadOrder[i].open_error, LoadOrder[i].file),
               ErrorValue("FileNotFound", "")>>)
    ELSE Ok(zip[LoadOrder[i].table][1])

\* a table loader that takes every record as it comes
try_from_unchecked(i, records) ==
    Ok([k \in DOMAIN records |-> records[k]])

\* Stops / Routes / Trips / StopTimes::try_from(csv::Reader) with load's
\* map_err: the fold keeps the first record error, else the table is loaded
try_from(i, records) ==
    LET failed == {k \in DOMAIN records : records[k] = "bad"}
    IN  IF failed # {}
        THEN Err(<<ErrorValue(LoadOrder[i].load_error, ""),
                   ErrorValue(LoadOrder[i].record_error,
                              CHOOSE k \in failed : \A j \in failed : k <= j)>>)
        ELSE Ok([k \in DOMAIN records |-> records[k]])

\* the files an archive may hold: None is a file the archive does not have
ArchiveFiles ==
    {None} \cup {Some(r) : r \in UNION {[1..n -> {"good", "bad"}] : n \in 0..MaxRecords}}

Archives == [{"stops", "routes", "trips", "stop_times"} -> ArchiveFiles]

\* the tables load has read so far
NoTables == [t \in {} |-> << >>]

ZipLoadInit ==
    /\ root \in Archives
    /\ node = << >>
    /\ depth = 0
    /\ call = [op |-> "ZipLoader::load", id |-> "", self |-> Some(NoTables)]
    /\ result = NoResult

\* let <table>_reader = self.zip.by_name(..).map_err(..)?;
\* self.event_handler.on_<table>_file_opened(&reader)
OpenFile(i) ==
    /\ result = NoResult
    /\ depth = 2 * (i - 1)
    /\ LET reader == by_name(root, i)
       IN  IF reader.status = "err"
           THEN /\ result' = reader
                /\ UNCHANGED <<root, node, depth, call>>
           ELSE /\ node' = Append(node, LoadOrder[i].opened)
                /\ depth' = depth + 1
                /\ UNCHANGED <<root, call, result>>

\* let <table> = <Table>::try_from(csv::Reader::from_reader(reader)).map_err(..)?;
\* self.event_handler.on_<table>_loaded(&table)
LoadTable(i) ==
    /\ result = NoResult
    /\ depth = 2 * i - 1
    /\ LET table == try_from(i, by_name(root, i).val[1])
       IN  IF table.status = "err"
           THEN /\ result' = table
                /\ UNCHANGED <<root, node, depth, call>>
           ELSE /\ node' = Append(node, LoadOrder[i].loaded)
                /\ depth' = depth + 1
                /\ call' = [call EXCEPT !.self =
                               Some((LoadOrder[i].table :> table.val[1]) @@ call.self[1])]
                /\ UNCHANGED <<root, result>>

\* Ok(gtfs::GtfsSchedule { stops, routes, trips, stop_times })
ReturnSchedule ==
    /\ result = NoResult
    /\ depth = 2 * Len(LoadOrder)
    /\ result' = Ok(GtfsSchedule(call.self[1]["stops"], call.self[1]["routes"],
                                 call.self[1]["trips"], call.self[1]["stop_times"]))
    /\ UNCHANGED <<root, node, depth, call>>

ZipLoadNext ==
    \/ \E i \in DOMAIN LoadOrder : OpenFile(i)
    \/ \E i \in DOMAIN LoadOrder : LoadTable(i)
    \/ ReturnSchedule

ZipLoadSpec == ZipLoadInit /\ [][ZipLoadNext]_vars

---------------------------------------------------------------------------
(* What the dispatcher claims speak of *)

\* the calls the last command made, in call order
Calls == result.calls

Interpreted == call.op = "interpret"

\* the projections among the calls that returned a node
Projections == SelectSeq(Calls, LAMBDA c : c.at \in {"route", "stop"} /\ c.status = "ok")

\* C11: interpreting a command, whether it succeeds or fails at any depth,
\* leaves the node it was issued at as it was: schedule, node_id, node_name and
\* parent are the same before and after.
C11_InterpretLeavesNode ==
    Interpreted =>
        /\ node = call.self[1]
        /\ node = root
        /\ Calls[1].self = node

\* a command that failed after it had built two child nodes
C11_Witness ==
    /\ Interpreted
    /\ result.status = "err"
    /\ Len(Projections) = 2
    /\ node = call.self[1]

\* C12: stop closure is idempotent: projecting by a stop s and then projecting
\* the schedule that came back by s again returns the same stops.
C12_StopClosureIdempotent ==
    (/\ call.op = "stop"
     /\ call.self[1].node_id = call.id
     /\ call.self[1].parent = None) =>
        /\ result.status = "ok"
        /\ Res.stops = Src.stops

\* a second projection by the same stop, on a closure that holds the stop and
\* a descendant and that left a stop of the root behind
C12_Witness ==
    /\ call.op = "stop"
    /\ call.self[1].node_id = call.id
    /\ call.self[1].parent = None
    /\ result.status = "ok"
    /\ Cardinality(DOMAIN Res.stops) >= 2
    /\ DOMAIN Res.stops # DOMAIN root.gtfs.stops

\* the error kinds that tell that a collection name came without a subcommand
SubcommandRequiredKinds ==
    {"SubcommandRequired", "StopsSubcommandRequired", "RoutesSubcommandRequired",
     "TripsSubcommandRequired"}

\* C13: at a node, each of the commands stops, routes and trips given with no
\* remaining path returns a SubcommandRequired error value: it does not panic,
\* succeed or return another kind of error.
C13_BareCollectionIsSubcommandRequired ==
    Interpreted =>
        \A i \in DOMAIN Calls :
            (/\ Calls[i].at = "GtfsNode::interpret"
             /\ Calls[i].command \in {<<"stops">>, <<"routes">>, <<"trips">>}) =>
                /\ Calls[i].status = "err"
                /\ Len(Calls[i].err) = 1
                /\ Calls[i].err[1].kind \in SubcommandRequiredKinds

\* the command that is left after its first segment and one separator
Remainder(command) == IF Len(command) = 1 THEN <<"">> ELSE Tail(command)

\* the i-th call was made at a collection dispatcher with a first segment that
\* is no action
SelectsEntity(i) ==
    /\ Calls[i].at \in {"Routes::interpret", "Stops::interpret"}
    /\ Head(Calls[i].command) \notin {"list", "info"}

\* the keys of the collection the i-th call dispatches on
KeysAt(i) ==
    IF Calls[i].at = "Routes::interpret" THEN DOMAIN Calls[i].self.gtfs.routes
    ELSE DOMAIN Calls[i].self.stops

\* C14: at a Routes or Stops dispatcher a first segment other than list/info is
\* looked up as an exact id: a miss is InvalidCommand; on a hit the projection
\* is called with that id on the current schedule, and the remainder of the
\* path, one separator removed, is interpreted by the node the projection
\* returned.
C14_EntityLookupThenChild ==
    Interpreted =>
        \A i \in DOMAIN Calls :
            SelectsEntity(i) =>
                LET c == Calls[i]
                    first == Head(c.command)
                IN  IF first \notin KeysAt(i)
                    THEN /\ c.status = "err"
                         /\ c.err = <<ErrorValue("InvalidCommand", Text(c.command))>>
                         /\ i = Len(Calls)
                    ELSE /\ i + 1 \in DOMAIN Calls
                         /\ Calls[i + 1].at =
                               (IF c.at = "Routes::interpret" THEN "route" ELSE "stop")
                         /\ Calls[i + 1].command = <<first>>
                         /\ Calls[i + 1].self = c.self
                         /\ Calls[i + 1].status = "ok" =>
                               /\ i + 2 \in DOMAIN Calls
                               /\ Calls[i + 1].val[1].node_id = first
                               /\ Calls[i + 2].at = "GtfsNode::interpret"
                               /\ Calls[i + 2].self = Calls[i + 1].val[1]
                               /\ Calls[i + 2].command = Remainder(c.command)

\* a command that went through a stop into a route of the stop's projection,
\* whose schedule has fewer routes than the root, and then listed its stops
C14_Witness ==
    /\ Interpreted
    /\ result.status = "ok"
    /\ Len(Projections) = 2
    /\ Projections[1].at = "stop" /\ Projections[2].at = "route"
    /\ DOMAIN Projections[1].val[1].gtfs.routes # DOMAIN root.gtfs.routes
    /\ Projections[2].self = Projections[1].val[1]
    /\ Calls[Len(Calls)].at = "Stops::list"

\* C15: at a node, a command whose first segment is none of info, stops,
\* routes and trips returns InvalidCommand with the command text, and nothing
\* is called for it: no projection is made.
C15_UnknownWordIsInvalidCommand ==
    Interpreted =>
        \A i \in DOMAIN Calls :
            (/\ Calls[i].at = "GtfsNode::interpret"
             /\ Head(Calls[i].command) \notin {"info", "stops", "routes", "trips"}) =>
                /\ Calls[i].status = "err"
                /\ Calls[i].err = <<ErrorValue("InvalidCommand", Text(Calls[i].command))>>
                /\ i = Len(Calls)

\* an unknown word followed by an action, given to the node of a projection
C15_Witness ==
    /\ Interpreted
    /\ Len(Projections) = 1
    /\ Calls[Len(Calls)].at = "GtfsNode::interpret"
    /\ Calls[Len(Calls)].command = <<"zz", "list">>
    /\ Calls[Len(Calls)].self = Projections[1].val[1]
    /\ result.status = "err"

\* the function that reports for the terminal action the i-th call was given
ReportOf(i) ==
    CASE Calls[i].at = "GtfsNode::interpret" -> "println"
      [] Calls[i].at = "Routes::interpret" /\ Head(Calls[i].command) = "list" -> "Routes::list"
      [] Calls[i].at = "Routes::interpret" /\ Head(Calls[i].command) = "info" -> "Routes::info"
      [] Calls[i].at = "Stops::interpret" /\ Head(Calls[i].command) = "list" -> "Stops::list"
      [] Calls[i].at = "Stops::interpret" /\ Head(Calls[i].command) = "info" -> "Stops::info"

\* the i-th call was given a terminal action as its first segment
Terminal(i) ==
    \/ /\ Calls[i].at \in {"Routes::interpret", "Stops::interpret"}
       /\ Head(Calls[i].command) \in {"list", "info"}
    \/ /\ Calls[i].at = "GtfsNode::interpret"
       /\ Head(Calls[i].command) = "info"

\* C16: list and info never recurse: a dispatcher given list or info (info at
\* a node) as first segment reports and returns Ok, whatever segments follow;
\* it builds no child node and interprets nothing further.
C16_TerminalActionsEnd ==
    Interpreted =>
        \A i \in DOMAIN Calls :
            Terminal(i) =>
                /\ Calls[i].status = "ok"
                /\ result.status = "ok"
                /\ Len(Calls) = i + 1
                /\ Calls[i + 1].at = ReportOf(i)

\* list followed by another action, given to the stops of a child node
C16_Witness ==
    /\ Interpreted
    /\ Len(Projections) = 1
    /\ \E i \in DOMAIN Calls :
          /\ Calls[i].at = "Stops::interpret"
          /\ Calls[i].self = Projections[1].val[1].gtfs
          /\ Calls[i].command = <<"list", "info">>
    /\ result.status = "ok"

\* the wrappers the navigation into the projected entities calls for,
\* outermost first
NavigationWrappers ==
    [i \in 1..Len(Projections) |->
        ErrorValue(IF Projections[i].at = "route" THEN "ErrorExecutingCommandForRoute"
                   ELSE "ErrorExecutingCommandForStop",
                   Projections[i].command[1])]

\* the entries of an error chain that are such wrappers
WrappersOf(err) ==
    SelectSeq(err, LAMBDA e : e.kind \in {"ErrorExecutingCommandForRoute",
                                          "ErrorExecutingCommandForStop"})

\* the last call of the command was an interpret call that did not return Ok,
\* made after at least one entity had been navigated into
RemainderFailed ==
    /\ Interpreted
    /\ Len(Projections) >= 1
    /\ Calls[Len(Calls)].at \in {"GtfsNode::interpret", "Routes::interpret",
                                 "Stops::interpret", "Trips::interpret"}
    /\ Calls[Len(Calls)].status # "ok"

\* C17: when a command has navigated into entities e1..ek and the remainder
\* then fails, interpret returns Err, never Ok, and the error chain holds one
\* ErrorExecutingCommandForRoute / ErrorExecutingCommandForStop wrapper per
\* entity, in navigation order, each with its id, around the deepest failure.
C17_FailureIsWrappedPerEntity ==
    RemainderFailed =>
        /\ result.status = "err"
        /\ WrappersOf(result.err) = NavigationWrappers
        /\ LET deepest == Calls[Len(Calls)].err
           IN  /\ deepest # << >>
               /\ Len(deepest) <= Len(result.err)
               /\ SubSeq(result.err, Len(result.err) - Len(deepest) + 1, Len(result.err))
                     = deepest

\* C18: for stops.A.routes.R.list issued at the root of a feed with stop A,
\* stop A is projected first and routes.R.list is interpreted against the
\* projected schedule; if R is not a route of that projection the result is
\* an InvalidCommand / NoSuchRoute error and nothing is listed, even when the
\* root feed has R.
C18_RouteLookedUpInStopProjection ==
    \A r \in RouteIds :
        (/\ Interpreted
         /\ call.id = "stops.A.routes." \o r \o ".list"
         /\ "A" \in DOMAIN root.gtfs.stops) =>
            /\ Len(Calls) >= 3
            /\ Calls[2].at = "Stops::interpret"
            /\ Calls[3].at = "stop"
            /\ Calls[3].command = <<"A">>
            /\ Calls[3].self = root.gtfs
            /\ Calls[3].status = "ok" =>
                  LET child == Calls[3].val[1]
                  IN  /\ Len(Calls) >= 5
                      /\ Calls[4].at = "GtfsNode::interpret"
                      /\ Calls[4].self = child
                      /\ Calls[4].command = <<"routes", r, "list">>
                      /\ Calls[5].at = "Routes::interpret"
                      /\ Calls[5].self = child
                      /\ r \notin DOMAIN child.gtfs.routes =>
                            /\ result.status = "err"
                            /\ result.err[Len(result.err)].kind
                                  \in {"InvalidCommand", "NoSuchRoute"}
                            /\ \A i \in DOMAIN Calls : Calls[i].at # "Routes::list"

\* stops.A.routes.R1.list failing on a feed whose root has R1, the projection
\* of stop A having been made without it
C18_Witness ==
    /\ Interpreted
    /\ call.id = "stops.A.routes.R1.list"
    /\ "R1" \in DOMAIN root.gtfs.routes
    /\ Len(Projections) = 1
    /\ "R1" \notin DOMAIN Projections[1].val[1].gtfs.routes
    /\ result.status = "err"

\* C19: after any sequence of navigations, a node made by project-by-route has
\* as parent a copy of the node it was navigated from, the route id as node_id
\* and the route's name as node_name; a node made by project-by-stop has no
\* parent, the stop id as node_id and the stop's name, when it has one, as
\* node_name.
C19_ChildNodeFields ==
    /\ (call.op = "route" /\ result.status = "ok") =>
          /\ result.val[1].parent = Some(call.self[1])
          /\ result.val[1].node_id = call.id
          /\ result.val[1].node_name =
                Some(IF Src.routes[call.id].name.variant = "Short"
                     THEN Src.routes[call.id].name.short
                     ELSE Src.routes[call.id].name.long)
    /\ (call.op = "stop" /\ result.status = "ok") =>
          /\ result.val[1].parent = None
          /\ result.val[1].node_id = call.id
          /\ result.val[1].node_name = Src.stops[call.id].stop_name
    /\ node = root \/ node.node_id \in DOMAIN root.gtfs.routes \cup DOMAIN root.gtfs.stops

\* a route navigated into from the node of a named stop: the new node's parent
\* is that stop's node, which itself has no parent
C19_Witness ==
    /\ call.op = "route" /\ result.status = "ok"
    /\ depth = 2
    /\ node.parent # None
    /\ node.parent[1].node_id \in StopIds
    /\ node.parent[1].node_name # None
    /\ node.parent[1].parent = None
    /\ node.node_name = Some("2")

---------------------------------------------------------------------------
(* What the loader claims speak of *)

\* the record Route::try_from was called on
Fields == call.self[1]

\* the record has the column and a non-empty string in it
Filled(key) == key \in DOMAIN Fields /\ Fields[key] # ""

\* C20: a route record yields a RouteName only if route_short_name or
\* route_long_name is present and non-empty: both give LongAndShort, one gives
\* Short or Long, and with neither the route fails to load with a route-name
\* error; every loaded Route has at least one name.
C20_RouteNameRequired ==
    call.op = "Route::try_from" =>
        /\ RouteName_try_from(Fields).status = "ok"
              <=> (Filled("route_short_name") \/ Filled("route_long_name"))
        /\ result.status = "ok" =>
              /\ Filled("route_short_name") \/ Filled("route_long_name")
              /\ result.val[1].name.variant =
                    (IF Filled("route_short_name") /\ Filled("route_long_name")
                     THEN "LongAndShort"
                     ELSE IF Filled("route_short_name") THEN "Short" ELSE "Long")
              /\ Filled("route_long_name") =>
                    result.val[1].name.long = Fields["route_long_name"]
              /\ Filled("route_short_name") =>
                    result.val[1].name.short = Fields["route_short_name"]
              /\ name(result.val[1]) # ""
        /\ (~Filled("route_short_name") /\ ~Filled("route_long_name")) =>
              /\ result.status = "err"
              /\ Filled("route_id") => result.err[1].kind = "RouteNameError"
        /\ (Filled("route_short_name") \/ Filled("route_long_name")) =>
              (result.status = "err" => result.err[1].kind # "RouteNameError")

\* a record with a route id, an empty route_short_name and no route_long_name
\* column, refused for its name
C20_Witness ==
    /\ call.op = "Route::try_from"
    /\ Filled("route_id")
    /\ "route_short_name" \in DOMAIN Fields /\ Fields["route_short_name"] = ""
    /\ "route_long_name" \notin DOMAIN Fields
    /\ result.status = "err"
    /\ result.err[1].kind = "RouteNameError"

\* the location type a stop record selects: the string of its location_type
\* column, "0" when the header has no such column
SelectedType == IF "location_type" \in DOMAIN Fields THEN Fields["location_type"] ELSE "0"

\* the variant each location type stands for
VariantOf ==
    [t \in {"0", "1", "2", "3", "4"} |->
        CASE t = "0" -> "Stop" [] t = "1" -> "Station" [] t = "2" -> "EntranceExit"
          [] t = "3" -> "GenericNode" [] t = "4" -> "BoardingArea"]

\* every field the selected variant requires is present and non-empty
RequiredFilled ==
    /\ SelectedType \in {"0", "1", "2"} =>
          Filled("stop_name") /\ Filled("stop_lat") /\ Filled("stop_lon")
    /\ SelectedType \in {"2", "3", "4"} => Filled("parent_station")

\* C21: Stop::try_from succeeds only if the variant selected by location_type
\* has all its required fields present and non-empty (stop_name, stop_lat and
\* stop_lon for 0, 1 and 2; parent_station for 2, 3 and 4); otherwise it
\* returns an error and no Stop.  A record with no location_type column is
\* loaded as variant Stop, and a location_type outside 0..4 is an error.
C21_StopRequiredFields ==
    call.op = "Stop::try_from" =>
        /\ result.status \in {"ok", "err"}
        /\ result.status = "ok" =>
              /\ SelectedType \in DOMAIN VariantOf
              /\ RequiredFilled
              /\ result.val[1].location_type = VariantOf[SelectedType]
        /\ (SelectedType \notin DOMAIN VariantOf \/ ~RequiredFilled) =>
              result.status = "err" /\ result.val = None
        /\ "location_type" \notin DOMAIN Fields =>
              /\ result.status = "ok" => result.val[1].location_type = "Stop"
              /\ result.status = "ok" <=>
                    /\ Filled("stop_id") /\ RequiredFilled
                    /\ parse_f64(Fields["stop_lat"]).status = "ok"
                    /\ parse_f64(Fields["stop_lon"]).status = "ok"
                    /\ wheelchair_boarding_of(Fields).status = "ok"

\* an entrance with its name and position but an empty parent_station is
\* refused
C21_Witness ==
    /\ call.op = "Stop::try_from"
    /\ SelectedType = "2"
    /\ Filled("stop_id") /\ Filled("stop_name")
    /\ Filled("stop_lat") /\ Filled("stop_lon")
    /\ "parent_station" \in DOMAIN Fields /\ Fields["parent_station"] = ""
    /\ result.status = "err"
    /\ result.err[1].arg = "failed to load location as type '2': parent_station is required"

\* the Stop the accessors were read on and what the four of them returned
Loaded == result.val[1]
Accessors == node[1]

\* the Stop is as Stop::try_from built it: no name was written or taken
AsLoaded == Loaded = Stop_try_from(Fields).val[1]

\* C24: parent_station returns absence for every Station whatever the record
\* held, the optional parent for a Stop, and a present parent id for
\* EntranceExit, GenericNode and BoardingArea; get_stop_name, stop_lat and
\* stop_lon return a value for Stop, Station and EntranceExit and may return
\* absence only for GenericNode and BoardingArea.
C24_AccessorsPerVariant ==
    call.op = "accessors" =>
        /\ Loaded.location_type = "Station" => Accessors.parent_station = None
        /\ Loaded.location_type = "Stop" =>
              Accessors.parent_station =
                  (IF Filled("parent_station") THEN Some(Fields["parent_station"]) ELSE None)
        /\ Loaded.location_type \in {"EntranceExit", "GenericNode", "BoardingArea"} =>
              /\ Accessors.parent_station # None
              /\ Accessors.parent_station = Some(Fields["parent_station"])
        /\ Loaded.location_type \in {"Stop", "Station", "EntranceExit"} =>
              /\ Accessors.get_stop_name # None
              /\ Accessors.get_stop_name = Loaded.stop_name
              /\ AsLoaded => Accessors.get_stop_name = Some(Fields["stop_name"])
              /\ Accessors.stop_lat = Some(parse_f64(Fields["stop_lat"]).val[1])
              /\ Accessors.stop_lon = Some(parse_f64(Fields["stop_lon"]).val[1])
        /\ (\/ Accessors.get_stop_name = None
            \/ Accessors.stop_lat = None
            \/ Accessors.stop_lon = None) =>
              Loaded.location_type \in {"GenericNode", "BoardingArea"}
        /\ Loaded.location_type \in {"GenericNode", "BoardingArea"} =>
              /\ Accessors.get_stop_name = Loaded.stop_name
              /\ AsLoaded => (Accessors.get_stop_name = None <=> ~Filled("stop_name"))
              /\ Accessors.stop_lat = None <=> ~Filled("stop_lat")
              /\ Accessors.stop_lon = None <=> ~Filled("stop_lon")

\* a station whose record names a parent station, read as having none, with
\* its name and position present
C24_Witness ==
    /\ call.op = "accessors"
    /\ AsLoaded
    /\ Loaded.location_type = "Station"
    /\ Filled("parent_station")
    /\ Accessors.parent_station = None
    /\ Accessors.get_stop_name = Some("Main St")
    /\ Accessors.stop_lat = Some(15)
    /\ Accessors.stop_lon = Some(-910)

\* a is b with some of its elements left out
RECURSIVE IsSubsequence(_, _)
IsSubsequence(a, b) ==
    IF a = << >> THEN TRUE
    ELSE IF b = << >> THEN FALSE
    ELSE IF Head(a) = Head(b) THEN IsSubsequence(Tail(a), Tail(b))
    ELSE IsSubsequence(a, Tail(b))

\* the list holds its stop-times in the order of the records of stop_times.txt
InFileOrder(list) ==
    \A i, j \in DOMAIN list : i < j => list[i].stop_sequence < list[j].stop_sequence

\* the last call was a projection by stop that returned a schedule
StopProjected == call.op = "stop" /\ result.status = "ok"

\* C22: the loader appends each stop-time to its trip's list in file order,
\* and project-by-stop keeps, within each trip's list of the result, the
\* selected stop-times in the order of the source schedule's list for that
\* trip: the result list is a subsequence of the source list.
C22_StopTimeOrderPreserved ==
    /\ \A t \in DOMAIN root.gtfs.stop_times :
          /\ InFileOrder(root.gtfs.stop_times[t])
          /\ \A e \in Range(root.gtfs.stop_times[t]) : e.trip_id = t
    /\ StopProjected =>
          \A t \in DOMAIN Res.stop_times :
              /\ t \in DOMAIN Src.stop_times
              /\ IsSubsequence(Res.stop_times[t], Src.stop_times[t])

\* the number each non-negative integer segment of the time strings denotes
\* (every one fits the u32 that parse_time reads it into)
SegmentValue ==
    [s \in {"0", "24", "25", "59", "60", "+5"} |->
        CASE s = "0" -> 0 [] s = "24" -> 24 [] s = "25" -> 25
          [] s = "59" -> 59 [] s = "60" -> 60 [] s = "+5" -> 5]

\* the string parse_time was called on, split at ':'
TimeString == call.self[1]

\* three integer segments h:m:s with m < 60 and s < 60
WellFormedTime ==
    /\ Len(TimeString) = 3
    /\ \A i \in 1..3 : TimeString[i] \in DOMAIN SegmentValue
    /\ SegmentValue[TimeString[2]] < 60
    /\ SegmentValue[TimeString[3]] < 60

ParseTimeErrors ==
    {"ImproperNumberOfSegments", "InvalidHourSegment", "InvalidMinuteSegment",
     "InvalidSecondSegment", "InvalidTime"}

\* C23: parse_time accepts exactly three ':'-separated non-negative integer
\* segments h:m:s and returns the time of day (h mod 24, m, s) when m < 60 and
\* s < 60, so that hour 24 maps to 0 and 25 to 1; any other segment count, a
\* non-numeric segment, or m or s out of range returns a ParseTimeError and no
\* time value.
C23_ParseTime ==
    call.op = "parse_time" =>
        /\ WellFormedTime =>
              /\ result.status = "ok"
              /\ result.val = Some([hour |-> SegmentValue[TimeString[1]] % 24,
                                    minute |-> SegmentValue[TimeString[2]],
                                    second |-> SegmentValue[TimeString[3]]])
              /\ TimeString[1] = "24" => result.val[1].hour = 0
              /\ TimeString[1] = "25" => result.val[1].hour = 1
        /\ ~WellFormedTime =>
              /\ result.status = "err"
              /\ result.val = None
              /\ result.err[1].kind \in ParseTimeErrors
        /\ Len(TimeString) # 3 => result.err[1].kind = "ImproperNumberOfSegments"

\* "25:59:0" is read as 01:59:00
C23_Witness ==
    /\ call.op = "parse_time"
    /\ call.id = "25:59:0"
    /\ result = Ok([hour |-> 1, minute |-> 59, second |-> 0])

\* the eight events of a complete load, in order
AllEvents ==
    <<"on_stops_file_opened", "on_stops_loaded",
      "on_routes_file_opened", "on_routes_loaded",
      "on_trips_file_opened", "on_trips_loaded",
      "on_stop_times_file_opened", "on_stop_times_loaded">>

\* the events fired so far
Events == node

\* the archive lacks the i-th table's file / the file holds a record that
\* fails to parse
CannotOpen(i) == root[LoadOrder[i].table] = None
CannotParse(i) ==
    /\ root[LoadOrder[i].table] # None
    /\ \E k \in DOMAIN root[LoadOrder[i].table][1] : root[LoadOrder[i].table][1][k] = "bad"

\* the tables that fail, and the first of them in load's order
FailingTables == {i \in DOMAIN LoadOrder : CannotOpen(i) \/ CannotParse(i)}
FirstFailing == CHOOSE i \in FailingTables : \A j \in FailingTables : i <= j

\* C25: load processes the tables in the order stops, routes, trips,
\* stop_times, firing for each the file-opened and then the loaded event; at
\* the first table that cannot be opened or has a record that fails to parse
\* it returns that table's error at once, fires no further event and returns
\* no partial schedule; it returns Ok only when all eight events have fired
\* in order.
C25_LoadOrderAndFailFast ==
    call.op = "ZipLoader::load" =>
        /\ Events = SubSeq(AllEvents, 1, Len(Events))
        /\ Len(Events) = depth
        /\ FailingTables # {} =>
              /\ result.status # "ok"
              /\ Len(Events) <= 2 * (FirstFailing - 1) + (IF CannotOpen(FirstFailing) THEN 0 ELSE 1)
        /\ result.status = "ok" =>
              /\ Events = AllEvents
              /\ FailingTables = {}
              /\ \A i \in DOMAIN LoadOrder :
                    result.val[1][LoadOrder[i].table] = root[LoadOrder[i].table][1]
        /\ result.status = "err" =>
              /\ FailingTables # {}
              /\ result.val = None
              /\ result.err[1].kind =
                    (IF CannotOpen(FirstFailing) THEN LoadOrder[FirstFailing].open_error
                     ELSE LoadOrder[FirstFailing].load_error)
              /\ Len(Events) = 2 * (FirstFailing - 1) + (IF CannotOpen(FirstFailing) THEN 0 ELSE 1)
        /\ result.status \in {"none", "ok", "err"}

\* stops and routes load, trips.txt holds a record that fails to parse and
\* stop_times.txt is missing: load returns the trips error after five events
C25_Witness ==
    /\ call.op = "ZipLoader::load"
    /\ CannotParse(3)
    /\ CannotOpen(4)
    /\ result.status = "err"
    /\ result.err[1].kind = "FailedToLoadTrips"
    /\ Events = SubSeq(AllEvents, 1, 5)

\* every record of the table a is a record of the table b, under the same id
SubTable(a, b) == DOMAIN a \subseteq DOMAIN b /\ \A k \in DOMAIN a : a[k] = b[k]

\* the schedule A holds no stop, route, trip or stop-time that B does not hold
Narrows(A, B) ==
    /\ SubTable(A.stops, B.stops)
    /\ SubTable(A.routes, B.routes)
    /\ SubTable(A.trips, B.trips)
    /\ Entries(A) \subseteq Entries(B)

\* C26: navigation only narrows: after any sequence of successful route and
\* stop navigations from the root, each child node's stop, route and trip
\* records and stop-time entries are a subset of those of the node it was
\* projected from, and so of the root schedule; no projection introduces a
\* record that its source did not contain.
C26_NavigationNarrows ==
    /\ Narrows(node.gtfs, root.gtfs)
    /\ Returned =>
          /\ Narrows(Res, Src)
          /\ Narrows(Src, root.gtfs)
          /\ Narrows(Res, root.gtfs)

\* a second navigation that left a stop, a trip and a stop-time of its source
\* behind, the source having already left a route of the root behind
C26_Witness ==
    /\ Returned
    /\ depth = 2
    /\ DOMAIN Res.stops # {} /\ DOMAIN Res.stops # DOMAIN Src.stops
    /\ Entries(Res) # {} /\ Entries(Res) # Entries(Src)
    /\ DOMAIN Src.routes # DOMAIN root.gtfs.routes

\* the i-th call was made at a collection dispatcher with the id of one of
\* its entities and nothing after it
EndsAtEntity(i) ==
    /\ SelectsEntity(i)
    /\ Len(Calls[i].command) = 1
    /\ Head(Calls[i].command) \in KeysAt(i)

\* C27: a command path that ends at the id of a present entity, with nothing
\* after it, always returns an error: the child node interprets the empty
\* command and reports InvalidCommand for it, and the collection dispatcher
\* wraps this in ErrorExecutingCommandForRoute / ErrorExecutingCommandForStop
\* with the id; selecting an entity is never a successful terminal command.
C27_EntityAloneIsError ==
    Interpreted =>
        \A i \in DOMAIN Calls :
            EndsAtEntity(i) =>
                /\ Calls[i].status = "err"
                /\ result.status = "err"
                /\ Calls[i].err =
                      <<ErrorValue(IF Calls[i].at = "Routes::interpret"
                                   THEN "ErrorExecutingCommandForRoute"
                                   ELSE "ErrorExecutingCommandForStop",
                                   Head(Calls[i].command)),
                        ErrorValue("InvalidCommand", "")>>
                /\ Len(Calls) = i + 2
                /\ Calls[i + 2].at = "GtfsNode::interpret"
                /\ Calls[i + 2].command = <<"">>
                /\ Calls[i + 2].self = Calls[i + 1].val[1]
                /\ Calls[i + 2].err = <<ErrorValue("InvalidCommand", "")>>

\* the ids that are an action word or hold a '.'
ReservedIds == {"list", "info", "A.B", "R1.x"}

\* C28: at every dispatcher the first segment is the text before the first
\* '.', and at a collection dispatcher list and info come before the entity
\* lookup; so an entity whose id is list or info, or whose id holds a '.', is
\* never navigated into, whatever the command.
C28_ReservedIdsUnreachable ==
    Interpreted =>
        /\ \A i \in DOMAIN Calls :
              /\ Calls[i].at \in {"route", "stop"} =>
                    /\ Calls[i].command[1] \notin ReservedIds
                    /\ Calls[i].command = <<Head(Calls[i - 1].command)>>
              /\ (/\ Calls[i].at \in {"Routes::interpret", "Stops::interpret"}
                  /\ Head(Calls[i].command) \in {"list", "info"}) =>
                    /\ Calls[i].status = "ok"
                    /\ Len(Calls) = i + 1
                    /\ Calls[i + 1].at = ReportOf(i)
        /\ \A i \in DOMAIN Projections : Projections[i].val[1].node_id \notin ReservedIds
        /\ ReservedIds \subseteq DOMAIN root.gtfs.stops \cup DOMAIN root.gtfs.routes

\* stops.A.B on a feed that holds the stop A.B and no stop A: the lookup is
\* made for A and fails
C28_Witness ==
    /\ Interpreted
    /\ call.id = "stops.A.B"
    /\ "A.B" \in DOMAIN root.gtfs.stops
    /\ "A" \notin DOMAIN root.gtfs.stops
    /\ result.status = "err"
    /\ result.err[Len(result.err)] = ErrorValue("InvalidCommand", "A.B")
    /\ Projections = << >>

\* the i-th call was made at a node with trips, a separator and a tail
TripsWithTail(i) ==
    /\ Calls[i].at = "GtfsNode::interpret"
    /\ Head(Calls[i].command) = "trips"
    /\ Len(Calls[i].command) >= 2

\* C29: at every node and for every tail, the empty string after a separator
\* and ids that do not exist included, the command trips.<tail> returns Ok,
\* performs no projection and creates no child node: the trips dispatcher has
\* no error outcome.
C29_TripsTailIsOk ==
    Interpreted =>
        \A i \in DOMAIN Calls :
            /\ TripsWithTail(i) =>
                  /\ Calls[i].status = "ok"
                  /\ result.status = "ok"
                  /\ Len(Calls) = i + 1
                  /\ Calls[i + 1].at = "Trips::interpret"
                  /\ Calls[i + 1].command = Tail(Calls[i].command)
                  /\ Calls[i + 1].self = Calls[i].self.gtfs
            /\ Calls[i].at = "Trips::interpret" =>
                  /\ Calls[i].status = "ok" /\ Calls[i].err = << >>
                  /\ Calls[i].val = None
                  /\ i = Len(Calls)

\* trips with the empty tail, given to the node of a route
C29_Witness ==
    /\ Interpreted
    /\ call.id = "routes.R1.trips."
    /\ Len(Projections) = 1
    /\ Calls[Len(Calls)].at = "Trips::interpret"
    /\ Calls[Len(Calls)].self = Projections[1].val[1].gtfs
    /\ Calls[Len(Calls)].command = <<"">>
    /\ result.status = "ok"

\* every child id the index of S lists is the id of a stop of S, and the
\* index holds that stop
IndexClosed(S) ==
    LET index == stops_and_children(S)
    IN  \A id \in DOMAIN index :
            \A child_id \in index[id].children :
                /\ child_id \in DOMAIN S.stops
                /\ child_id \in DOMAIN index
                /\ index[child_id].stop = Some(S.stops[child_id])

\* the kinds of the error values of a chain
KindsOf(err) == {err[i].kind : i \in DOMAIN err}

\* C30: in the parent-to-children index that clone_descendants builds, every
\* child id listed under a parent is the id of a stop of the same schedule's
\* stop table; so the NoSuchStop branch inside put_descendants is never taken
\* and no call fails with ErrorGettingDescendants.
C30_IndexChildrenArePresent ==
    /\ IndexClosed(root.gtfs)
    /\ IndexClosed(node.gtfs)
    /\ call.op = "stop" =>
          /\ IndexClosed(Src)
          /\ "ErrorGettingDescendants" \notin KindsOf(result.err)
          /\ result.status = "err" =>
                /\ result.err = <<ErrorValue("NoSuchStop", call.id)>>
                /\ call.id \notin DOMAIN Src.stops
          /\ clone_descendants(Src, call.id).status = "err" =>
                clone_descendants(Src, call.id).err = <<ErrorValue("NoSuchStop", call.id)>>

\* a projection that walked from a stop to a child of it, on a schedule whose
\* index has an entry for a parent id that no stop carries
C30_Witness ==
    /\ call.op = "stop"
    /\ result.status = "ok"
    /\ Cardinality(DOMAIN Res.stops) >= 2
    /\ \E id \in DOMAIN stops_and_children(Src) :
          /\ stops_and_children(Src)[id].stop = None
          /\ stops_and_children(Src)[id].children # {}

====
